---- MODULE Spec2Model ----
(***************************************************************************)
(* A model of the building_to_3d_models pipeline:                          *)
(*   - BuildingReconstructor.reconstruct_building and its stages           *)
(*     (src/building_reconstructor.py, mesh stage from                     *)
(*      src/deployment/api/reconstruction/building_reconstructor.py),      *)
(*   - FeatureExtractor._process_walls, _process_windows, _process_doors,  *)
(*     _extract_rooms and _estimate_wall_thickness                         *)
(*     (src/backend/image_processing/feature_extractor.py),                *)
(*   - the two ScaleConverter classes                                      *)
(*     (src/backend/image_processing/scale_converter.py and                *)
(*      src/deployment/api/image_processing/scale_converter.py),           *)
(*   - EdgeDetector.detect_architectural_elements (src/edge_detector.py),  *)
(*   - the upload endpoint upload_file (src/deployment/api/app.py),        *)
(*   - ImageProcessor.process_building_plan requests running concurrently  *)
(*     with /api/set-scale requests                                        *)
(*     (src/backend/image_processing/image_processor.py).                  *)
(*                                                                         *)
(* Conventions.                                                            *)
(*   Python lists are sequences; Python index i is TLA+ index i + 1.       *)
(*   Python dicts are functions on a set of string keys; d.get(k, v) is    *)
(*   Get(d, k, v).  The empty dict and the empty list are both <<>>.       *)
(*   Heights of the building model (floor levels, floor heights, wall and  *)
(*   opening heights) are counted in HALF UNITS so that the 0.5 tolerance  *)
(*   and the 3.0 storey height are integers: 0.5 is 1, 1.0 is 2, 2.0 is 4, *)
(*   3.0 is 6.  Wall thickness is counted in tenths (0.2 is 2).            *)
(***************************************************************************)
EXTENDS Integers, Sequences, FiniteSets, TLC

VARIABLES
    \* ---- one reconstruct_building request ----
    floor_plans,      \* argument: list of floor plan dicts
    elevations,       \* argument: list of elevation dicts
    output_dir,       \* argument: NoDir or a directory name
    hull_raises,      \* environment: trimesh.convex.convex_hull raises on the point array
    pc,               \* position in reconstruct_building
    stages_run,       \* history: the stages executed so far, in order
    raised,           \* the exception that ended the run, or NoError
    building_outline, \* local of reconstruct_building
    floor_heights,    \* local of reconstruct_building
    walls,            \* local of reconstruct_building
    openings,         \* local of reconstruct_building
    roof,             \* local of reconstruct_building
    mesh,             \* local of reconstruct_building
    returned,         \* the returned dict, or None
    files,            \* the file system: directories and files that exist
    \* ---- one FeatureExtractor._process_windows call ----
    win_in,           \* argument: list of detected windows
    win_out,          \* return value, or None
    \* ---- one FeatureExtractor._estimate_wall_thickness call ----
    thick_in,         \* arguments: image, p1, p2
    thick_out,        \* return value, or None
    \* ---- the ScaleConverter objects ----
    scale_factors,    \* deployment ScaleConverter.scale_factors
    scales,           \* backend ScaleConverter.scales
    converter,        \* which ScaleConverter class the caller has imported
    calibrated,       \* history: image id -> arguments of its last set_scale
    conv,             \* history: the last ScaleConverter call and its outcome
    \* ---- one EdgeDetector.detect_architectural_elements call ----
    det_in,           \* argument element_type and what the OpenCV searches find
    det_out,          \* outcome of the call, or None
    \* ---- one request to the upload endpoint ----
    request,          \* the POST /api/upload request
    response,         \* the response sent, or None
    upload_folder,    \* names of the files in UPLOAD_FOLDER
    results_folder,   \* names of the files in RESULTS_FOLDER
    processor_calls,  \* history: the calls made to image_processor
    \* ---- one FeatureExtractor call on detected elements or on an image ----
    fx_in,            \* the method called and its argument
    fx_out,           \* return value, or None
    \* ---- one ScaleConverter.apply_scale_to_features call ----
    asf_in,           \* arguments image_id, output_unit and the features as passed
    asf_features,     \* the caller's features object (the heap the call can write to)
    asf_out,          \* outcome of the call, or None
    \* ---- requests running concurrently on the shared ImageProcessor ----
    ip_calls          \* request id -> position, locals and result of the request

reconVars == <<floor_plans, elevations, output_dir, hull_raises, pc, stages_run,
               raised, building_outline, floor_heights, walls, openings, roof,
               mesh, returned, files>>
winVars   == <<win_in, win_out>>
thickVars == <<thick_in, thick_out>>
scaleVars == <<scale_factors, scales, converter, calibrated, conv>>
detectVars == <<det_in, det_out>>
uploadVars == <<request, response, upload_folder, results_folder, processor_calls>>
featVars  == <<fx_in, fx_out>>
applyVars == <<asf_in, asf_features, asf_out>>
procVars  == <<ip_calls>>
vars      == <<reconVars, winVars, thickVars, scaleVars, detectVars, uploadVars,
               featVars, applyVars, procVars>>

\* The components a specification does not exercise stay in these states.
IdleWin   == win_in = <<>> /\ win_out = <<>>
IdleThick == thick_in = <<>> /\ thick_out = <<>>
IdleScale ==
    /\ scale_factors = <<>> /\ scales = <<>> /\ converter = "none"
    /\ calibrated = <<>> /\ conv = <<>>

IdleDetect == det_in = <<>> /\ det_out = <<>>
IdleUpload ==
    /\ request = <<>> /\ response = <<>> /\ upload_folder = {}
    /\ results_folder = {} /\ processor_calls = <<>>
IdleFeat  == fx_in = <<>> /\ fx_out = <<>>
IdleApply == asf_in = <<>> /\ asf_features = <<>> /\ asf_out = <<>>
IdleProc  == ip_calls = <<>>

None    == "None"
NoError == "NoError"
NoDir   == "NoDir"

\* ---------------------------------------------------------------------------
\* Generic helpers
\* ---------------------------------------------------------------------------

\* dict.get(k, dflt)
Get(d, k, dflt) == IF k \in DOMAIN d THEN d[k] ELSE dflt

Abs(x) == IF x < 0 THEN -x ELSE x

\* All sequences over S of length at most n.
SeqsUpTo(S, n) == UNION {[1..k -> S] : k \in 0..n}

RECURSIVE SumSeq(_)
SumSeq(s) == IF s = <<>> THEN 0 ELSE Head(s) + SumSeq(Tail(s))

Range(s) == {s[i] : i \in DOMAIN s}

Min(S) == CHOOSE x \in S : \A y \in S : x <= y
Max(S) == CHOOSE x \in S : \A y \in S : x >= y

\* s[:n]
Take(s, n) == SubSeq(s, 1, IF n < Len(s) THEN n ELSE Len(s))

\* Largest k with k * k <= n (np.sqrt on the perfect squares the model uses).
ISqrt(n) == CHOOSE k \in 0..n : k * k <= n /\ (k + 1) * (k + 1) > n

\* ---------------------------------------------------------------------------
\* Bounds of the model and program constants
\* ---------------------------------------------------------------------------
MaxFloors     == 3   \* at most this many floor plans in a request
MaxElevations == 2   \* at most this many elevations in a request
MaxLevels     == 3   \* floor levels pooled over the elevations of one call
MaxY          == 4   \* floor level positions range over 0..MaxY (half units)

Tolerance          == 1   \* 0.5 unit tolerance           (half units)
DefaultFloorHeight == 6   \* 3.0 per floor / default wall  (half units)
RoofHeight         == 1   \* 0.5 flat roof height          (half units)
DoorHeight         == 4   \* 2.0 default door height       (half units)
WindowSill         == 2   \* 1.0 window sill               (half units)
DefaultThickness   == 2   \* 0.2 default wall thickness    (tenths)
TopWalls           == 20  \* perimeter candidates kept
MinLoopPoints      == 6   \* "Need at least 3 walls (6 points)"

\* ---------------------------------------------------------------------------
\* BuildingReconstructor._extract_floor_heights
\* ---------------------------------------------------------------------------

\* The y_position of every floor level of every elevation, in input order.
RECURSIVE LevelsOf(_)
LevelsOf(levels) ==
    IF levels = <<>> THEN <<>>
    ELSE <<Get(Head(levels), "y_position", 0)>> \o LevelsOf(Tail(levels))

RECURSIVE collect_levels(_)
collect_levels(elevs) ==
    IF elevs = <<>> THEN <<>>
    ELSE LET elevation_data == Get(Head(elevs), "elevation_data", <<>>)
             levels         == Get(elevation_data, "floor_levels", <<>>)
         IN  LevelsOf(levels) \o collect_levels(Tail(elevs))

\* list.sort(reverse=True) on numbers: insertion into a descending list.
RECURSIVE InsertDesc(_, _)
InsertDesc(x, s) ==
    IF s = <<>> THEN <<x>>
    ELSE IF x >= Head(s) THEN <<x>> \o s
    ELSE <<Head(s)>> \o InsertDesc(x, Tail(s))

RECURSIVE sort_reverse(_)
sort_reverse(s) == IF s = <<>> THEN <<>> ELSE InsertDesc(Head(s), sort_reverse(Tail(s)))

\* The loop of lines 221-225 with 'at least' in place of 'more than'.
RECURSIVE remove_duplicates_m(_, _)
remove_duplicates_m(unique_levels, rest) ==
    IF rest = <<>> THEN unique_levels
    ELSE IF Abs(Head(rest) - unique_levels[Len(unique_levels)]) >= Tolerance
         THEN remove_duplicates_m(Append(unique_levels, Head(rest)), Tail(rest))
         ELSE remove_duplicates_m(unique_levels, Tail(rest))

\* The loop of lines 221-225: keep a level when it differs from the last kept
\* one by more than the tolerance.
RECURSIVE remove_duplicates(_, _)
remove_duplicates(unique_levels, rest) ==
    IF rest = <<>> THEN unique_levels
    ELSE IF Abs(Head(rest) - unique_levels[Len(unique_levels)]) > Tolerance
         THEN remove_duplicates(Append(unique_levels, Head(rest)), Tail(rest))
         ELSE remove_duplicates(unique_levels, Tail(rest))

\* Lines 227-232: heights above the last surviving level, last entry set to 0.
heights_from_levels_m(unique_levels) ==
    LET ground_level == unique_levels[1]
    IN  [i \in 1..Len(unique_levels) |->
            IF i = Len(unique_levels) THEN 0 ELSE unique_levels[i] - ground_level]

heights_from_levels(unique_levels) ==
    LET ground_level == unique_levels[Len(unique_levels)]
    IN  [i \in 1..Len(unique_levels) |->
            IF i = Len(unique_levels) THEN 0 ELSE unique_levels[i] - ground_level]

\* The fallback without the minimum of one floor.
default_floor_heights_m(elevs) ==
    [i \in 1..Len(elevs) |-> (i - 1) * DefaultFloorHeight]

\* Lines 234-237: the 3.0-per-floor fallback, one entry per elevation input.
default_floor_heights(elevs) ==
    LET num_floors == IF Len(elevs) > 1 THEN Len(elevs) ELSE 1
    IN  [i \in 1..num_floors |-> (i - 1) * DefaultFloorHeight]

extract_floor_heights(elevs) ==
    LET all_levels == collect_levels(elevs)
    IN  IF all_levels # <<>>
        THEN LET sorted == sort_reverse(all_levels)
             IN  heights_from_levels(remove_duplicates(<<Head(sorted)>>, Tail(sorted)))
        ELSE default_floor_heights(elevs)

\* ---------------------------------------------------------------------------
\* BuildingReconstructor._create_walls
\* ---------------------------------------------------------------------------

\* Line 257: floor_heights[i] if i < len(floor_heights) else 0   (i is Python's)
floor_height_of(i, fh) == IF i < Len(fh) THEN fh[i + 1] ELSE 0

\* Line 260 indexes floor_heights[i-1] whenever i > 0, with no length check:
\* the list index is out of range when i - 1 >= len(floor_heights).
next_height_raises(i, fh) == i > 0 /\ i - 1 >= Len(fh)

\* Line 260: floor_heights[i-1] if i > 0 else floor_height + 3.0
next_height_of(i, fh) ==
    IF i > 0 THEN fh[i] ELSE floor_height_of(i, fh) + DefaultFloorHeight

\* Line 263
wall_height_of(i, fh) == next_height_of(i, fh) - floor_height_of(i, fh)

\* lift_walls accepting a wall as soon as it has one point.
RECURSIVE lift_walls_m(_, _, _)
lift_walls_m(ws, i, fh) ==
    IF ws = <<>> THEN <<>>
    ELSE LET wall   == Head(ws)
             points == Get(wall, "points", <<>>)
         IN  (IF Len(points) >= 1
              THEN <<[type        |-> "wall",
                      points      |-> points,
                      height      |-> wall_height_of(i, fh),
                      base_height |-> floor_height_of(i, fh),
                      thickness   |-> Get(wall, "thickness", DefaultThickness),
                      floor       |-> i]>>
              ELSE <<>>)
             \o lift_walls_m(Tail(ws), i, fh)

\* Lines 269-280: the 3D walls of one floor plan.  "floor" is not a key of
\* the source dict: it records the loop index the wall was emitted under.
RECURSIVE lift_walls(_, _, _)
lift_walls(ws, i, fh) ==
    IF ws = <<>> THEN <<>>
    ELSE LET wall   == Head(ws)
             points == Get(wall, "points", <<>>)
         IN  (IF Len(points) >= 2
              THEN <<[type        |-> "wall",
                      points      |-> points,
                      height      |-> wall_height_of(i, fh),
                      base_height |-> floor_height_of(i, fh),
                      thickness   |-> Get(wall, "thickness", DefaultThickness),
                      floor       |-> i]>>
              ELSE <<>>)
             \o lift_walls(Tail(ws), i, fh)

RECURSIVE walls_from(_, _, _)
walls_from(fps, i, fh) ==
    IF i >= Len(fps) THEN <<>>
    ELSE lift_walls(Get(fps[i + 1].features, "walls", <<>>), i, fh)
         \o walls_from(fps, i + 1, fh)

\* The whole method: IndexError as soon as one floor index has no next height,
\* otherwise the list of 3D walls.
create_walls(fps, fh) ==
    IF \E i \in 0..(Len(fps) - 1) : next_height_raises(i, fh)
    THEN [raised |-> "IndexError", value |-> <<>>]
    ELSE [raised |-> NoError,      value |-> walls_from(fps, 0, fh)]

\* ---------------------------------------------------------------------------
\* BuildingReconstructor._extract_building_outline, _find_closed_loop,
\* _order_points_to_form_polygon
\* ---------------------------------------------------------------------------

\* sorted(walls, key=length, reverse=True): Python's sort is stable, and with
\* reverse=True walls of equal length keep their input order.
RECURSIVE InsertByLength(_, _)
InsertByLength(w, s) ==
    IF s = <<>> THEN <<w>>
    ELSE IF Get(w, "length", 0) >= Get(Head(s), "length", 0) THEN <<w>> \o s
    ELSE <<Head(s)>> \o InsertByLength(w, Tail(s))

RECURSIVE sorted_by_length(_)
sorted_by_length(ws) ==
    IF ws = <<>> THEN <<>> ELSE InsertByLength(Head(ws), sorted_by_length(Tail(ws)))

\* Lines 141-146 taking every point of a wall that has at least two.
RECURSIVE all_points_of_m(_)
all_points_of_m(ws) ==
    IF ws = <<>> THEN <<>>
    ELSE LET points == Get(Head(ws), "points", <<>>)
         IN  (IF Len(points) >= 2 THEN points ELSE <<>>)
             \o all_points_of_m(Tail(ws))

\* Lines 141-146: the first two points of every wall that has at least two.
RECURSIVE all_points_of(_)
all_points_of(ws) ==
    IF ws = <<>> THEN <<>>
    ELSE LET points == Get(Head(ws), "points", <<>>)
         IN  (IF Len(points) >= 2 THEN <<points[1], points[2]>> ELSE <<>>)
             \o all_points_of(Tail(ws))

\* Twice the signed area of the triangle a, b, c.
Orient(a, b, c) == (b[1] - a[1]) * (c[2] - a[2]) - (b[2] - a[2]) * (c[1] - a[1])

Between(x, u, v) == (u <= x /\ x <= v) \/ (v <= x /\ x <= u)

OnSegment(p, a, b) ==
    Orient(a, b, p) = 0 /\ Between(p[1], a[1], b[1]) /\ Between(p[2], a[2], b[2])

InTriangle(p, a, b, c) ==
    /\ Orient(a, b, c) # 0
    /\ \/ Orient(a, b, p) >= 0 /\ Orient(b, c, p) >= 0 /\ Orient(c, a, p) >= 0
       \/ Orient(a, b, p) <= 0 /\ Orient(b, c, p) <= 0 /\ Orient(c, a, p) <= 0

\* p is a vertex of the convex hull of S: it lies on no segment and in no
\* triangle spanned by the other points.
IsHullVertex(p, S) ==
    LET T == S \ {p}
    IN  /\ ~ \E a, b \in T : a # b /\ OnSegment(p, a, b)
        /\ ~ \E a, b, c \in T : InTriangle(p, a, b, c)

\* hull.vertices of a successful trimesh.convex.convex_hull call: the hull
\* vertices, each once, listed in order of first occurrence in the input.
RECURSIVE hull_vertices(_, _, _)
hull_vertices(points, S, seen) ==
    IF points = <<>> THEN <<>>
    ELSE LET p == Head(points)
         IN  (IF p \notin seen /\ IsHullVertex(p, S) THEN <<p>> ELSE <<>>)
             \o hull_vertices(Tail(points), S, seen \cup {p})

\* Lines 178-191: the hull vertices, or [] when the library call raises.
order_points_to_form_polygon(points) ==
    IF hull_raises THEN <<>> ELSE hull_vertices(points, Range(points), {})

find_closed_loop(ws) ==
    LET all_points == all_points_of(ws)
    IN  IF Len(all_points) < MinLoopPoints THEN <<>>
        ELSE LET ordered_points == order_points_to_form_polygon(all_points)
             IN  IF ordered_points # <<>>
                 THEN <<[type |-> "exterior_wall", points |-> ordered_points,
                         closed |-> TRUE]>>
                 ELSE <<>>

\* max(rooms, key=area) taken as the first room.
largest_room_m(rooms) == rooms[1]

\* max(rooms, key=area): the first room of maximal area.
largest_room(rooms) ==
    LET best == Max({Get(rooms[i], "area", 0) : i \in DOMAIN rooms})
        k    == Min({i \in DOMAIN rooms : Get(rooms[i], "area", 0) = best})
    IN  rooms[k]

extract_building_outline(fps) ==
    LET first_floor  == fps[1]
        ws           == Get(first_floor.features, "walls", <<>>)
        from_walls   == IF ws # <<>>
                        THEN find_closed_loop(Take(sorted_by_length(ws), TopWalls))
                        ELSE <<>>
        rooms        == Get(first_floor.features, "rooms", <<>>)
        exterior_walls ==
            IF from_walls # <<>> THEN from_walls
            ELSE IF rooms # <<>>
                 THEN <<[type |-> "exterior_wall",
                         points |-> Get(largest_room(rooms), "points", <<>>),
                         closed |-> TRUE]>>
                 ELSE <<>>
    IN  [exterior_walls |-> exterior_walls, level |-> 0]

\* ---------------------------------------------------------------------------
\* BuildingReconstructor._create_openings
\* ---------------------------------------------------------------------------
\* lift_windows accepting a window as soon as it has three points.
RECURSIVE lift_windows_m(_, _)
lift_windows_m(ws, i) ==
    IF ws = <<>> THEN <<>>
    ELSE LET points == Get(Head(ws), "points", <<>>)
             xs     == {points[k][1] : k \in DOMAIN points}
             ys     == {points[k][2] : k \in DOMAIN points}
         IN  (IF Len(points) >= 3
              THEN <<[type |-> "window", position |-> <<Min(xs), Min(ys)>>,
                      width |-> Max(xs) - Min(xs), height |-> Max(ys) - Min(ys),
                      floor |-> i]>>
              ELSE <<>>)
             \o lift_windows_m(Tail(ws), i)

RECURSIVE lift_windows(_, _)
lift_windows(ws, i) ==
    IF ws = <<>> THEN <<>>
    ELSE LET points == Get(Head(ws), "points", <<>>)
             xs     == {points[k][1] : k \in DOMAIN points}
             ys     == {points[k][2] : k \in DOMAIN points}
         IN  (IF Len(points) >= 4
              THEN <<[type |-> "window", position |-> <<Min(xs), Min(ys)>>,
                      width |-> Max(xs) - Min(xs), height |-> Max(ys) - Min(ys),
                      floor |-> i]>>
              ELSE <<>>)
             \o lift_windows(Tail(ws), i)

RECURSIVE lift_doors(_, _)
lift_doors(ds, i) ==
    IF ds = <<>> THEN <<>>
    ELSE LET door   == Head(ds)
             points == Get(door, "points", <<>>)
         IN  (IF Get(door, "door_type", None) = "swing"
              THEN <<[type |-> "door", door_type |-> "swing",
                      position |-> Get(door, "center", <<0, 0>>),
                      radius |-> Get(door, "radius", 0), floor |-> i]>>
              ELSE IF Len(points) >= 2
              THEN <<[type |-> "door", door_type |-> "standard",
                      position |-> points[1],
                      width |-> ISqrt((points[2][1] - points[1][1]) * (points[2][1] - points[1][1])
                                    + (points[2][2] - points[1][2]) * (points[2][2] - points[1][2])),
                      height |-> DoorHeight, floor |-> i]>>
              ELSE <<>>)
             \o lift_doors(Tail(ds), i)

RECURSIVE openings_from(_, _)
openings_from(fps, i) ==
    IF i >= Len(fps) THEN <<>>
    ELSE lift_windows(Get(fps[i + 1].features, "windows", <<>>), i)
         \o lift_doors(Get(fps[i + 1].features, "doors", <<>>), i)
         \o openings_from(fps, i + 1)

\* The elevations are iterated and ignored (lines 363-366).
create_openings(fps, elevs) == openings_from(fps, 0)

\* ---------------------------------------------------------------------------
\* BuildingReconstructor._create_roof
\* ---------------------------------------------------------------------------
create_roof(top_floor_plan, elevs) ==
    [type    |-> "flat",
     outline |-> extract_building_outline(<<top_floor_plan>>).exterior_walls,
     height  |-> RoofHeight]

\* ---------------------------------------------------------------------------
\* BuildingReconstructor._generate_mesh and the per-element mesh builders.
\* A mesh is modelled by the placement of its parts: z is the height the part
\* is translated to (half units).
\* ---------------------------------------------------------------------------

\* Some consecutive pair of points is a segment of positive length.
HasSegment(points) == \E k \in 1..(Len(points) - 1) : points[k] # points[k + 1]

\* _create_wall_mesh: the extrusion call passes no height and raises, so the
\* per-segment boxes are built; a wall with no segment of positive length
\* gives no mesh.
RECURSIVE wall_meshes(_)
wall_meshes(ws) ==
    IF ws = <<>> THEN <<>>
    ELSE LET wall   == Head(ws)
             points == Get(wall, "points", <<>>)
         IN  (IF Len(points) >= 2 /\ HasSegment(points)
              THEN <<[z |-> Get(wall, "base_height", 0),
                      height |-> Get(wall, "height", DefaultFloorHeight),
                      thickness |-> Get(wall, "thickness", DefaultThickness)]>>
              ELSE <<>>)
             \o wall_meshes(Tail(ws))

\* _create_opening_mesh: windows at floor * 3.0 + 1.0, doors at floor * 3.0.
RECURSIVE opening_meshes(_)
opening_meshes(os) ==
    IF os = <<>> THEN <<>>
    ELSE LET opening == Head(os)
             floor   == Get(opening, "floor", 0)
         IN  (IF Get(opening, "type", "") = "window"
              THEN <<[type |-> "window", floor |-> floor,
                      z |-> floor * DefaultFloorHeight + WindowSill]>>
              ELSE IF Get(opening, "type", "") = "door"
              THEN <<[type |-> "door", floor |-> floor,
                      z |-> floor * DefaultFloorHeight]>>
              ELSE <<>>)
             \o opening_meshes(Tail(os))

\* _create_roof_mesh: nothing for an empty outline; otherwise the first
\* outline entry that has points, translated to floor_heights[0].
roof_mesh(rf, fh) ==
    LET outline == Get(rf, "outline", <<>>)
        top_floor_height == IF fh # <<>> THEN fh[1] ELSE DefaultFloorHeight
        with_points == {k \in DOMAIN outline : Get(outline[k], "points", <<>>) # <<>>}
    IN  IF outline = <<>> \/ with_points = {} THEN <<>>
        ELSE <<[z |-> top_floor_height, height |-> Get(rf, "height", RoofHeight)]>>

generate_mesh(building_model) ==
    [walls    |-> wall_meshes(building_model.walls),
     openings |-> opening_meshes(building_model.openings),
     roof     |-> roof_mesh(building_model.roof, building_model.floors)]

\* ---------------------------------------------------------------------------
\* Inputs of a reconstruction request
\* ---------------------------------------------------------------------------

\* The four walls of the 10 by 8 rectangle of test_building_outline_extraction.
PlanRect ==
    [features |-> [walls |-> <<
        [points |-> << <<0, 0>>,  <<10, 0>> >>, length |-> 10],
        [points |-> << <<10, 0>>, <<10, 8>> >>, length |-> 8],
        [points |-> << <<10, 8>>, <<0, 8>> >>,  length |-> 10],
        [points |-> << <<0, 8>>,  <<0, 0>> >>,  length |-> 8] >>]]

\* Three walls closing a 4 by 3 triangle, with a detected thickness, no rooms.
PlanTriangle ==
    [features |-> [walls |-> <<
        [points |-> << <<0, 0>>, <<4, 0>> >>, length |-> 4, thickness |-> 3],
        [points |-> << <<4, 0>>, <<0, 3>> >>, length |-> 5, thickness |-> 3],
        [points |-> << <<0, 3>>, <<0, 0>> >>, length |-> 3, thickness |-> 3] >>]]

\* One wall, one degenerate wall (a single point), two rooms, a window and a
\* degenerate window (three points), a swing door, a 'double' door and a
\* degenerate door (a single point).
PlanRooms ==
    [features |->
        [walls |-> <<
            [points |-> << <<0, 0>>, <<4, 0>> >>, length |-> 4, thickness |-> 3],
            [points |-> << <<1, 1>> >>, length |-> 0] >>,
         rooms |-> <<
            [points |-> << <<0, 0>>, <<4, 0>>, <<4, 3>> >>, area |-> 6],
            [points |-> << <<0, 0>>, <<4, 0>>, <<4, 3>>, <<0, 3>> >>, area |-> 12] >>,
         windows |-> <<
            [points |-> << <<1, 0>>, <<3, 0>>, <<3, 1>>, <<1, 1>> >>,
             width |-> 2, height |-> 1],
            [points |-> << <<1, 0>>, <<3, 0>>, <<3, 1>> >>,
             width |-> 2, height |-> 1] >>,
         doors |-> <<
            [door_type |-> "swing", center |-> <<2, 2>>, radius |-> 1],
            [door_type |-> "double", points |-> << <<0, 0>>, <<3, 4>> >>,
             length |-> 5],
            [door_type |-> "standard", points |-> << <<2, 0>> >>,
             length |-> 0] >>]]

\* A floor plan of the minimal shape: a 'features' dict with no key.
PlanEmpty == [features |-> <<>>]

FloorPlanSamples == {PlanRect, PlanTriangle, PlanRooms, PlanEmpty}

\* An elevation with the given floor level positions (half units).
Elevation(ys) ==
    [elevation_data |-> [floor_levels |-> [k \in DOMAIN ys |-> [y_position |-> ys[k]]]]]

ElevationSamples ==
    { <<>>,                      \* no elevation_data at all
      Elevation(<<>>),           \* no floor level
      Elevation(<<0, 6>>),       \* two levels 3.0 apart
      Elevation(<<7, 0, 1>>) }   \* 0 and 0.5 collapse into one level

\* ---------------------------------------------------------------------------
\* BuildingReconstructor.reconstruct_building, one action per stage
\* ---------------------------------------------------------------------------
MeshFile(dir) == <<dir, "building_model.obj">>

\* Lines 32-35: the request is rejected when either list is empty.
input_missing_m(fps, elevs) == fps = <<>>
input_missing(fps, elevs) == fps = <<>> \/ elevs = <<>>

notRecon == <<winVars, thickVars, scaleVars, detectVars, uploadVars, featVars, applyVars, procVars>>

InitRecon ==
    /\ floor_plans \in SeqsUpTo(FloorPlanSamples, MaxFloors)
    /\ elevations \in SeqsUpTo(ElevationSamples, MaxElevations)
    /\ output_dir \in {NoDir, "out"}
    /\ hull_raises \in BOOLEAN
    /\ pc = "validate"
    /\ stages_run = <<>>
    /\ raised = NoError
    /\ building_outline = <<>>
    /\ floor_heights = <<>>
    /\ walls = <<>>
    /\ openings = <<>>
    /\ roof = <<>>
    /\ mesh = <<>>
    /\ returned = <<>>
    /\ files = {}

IdleRecon ==
    /\ floor_plans = <<>> /\ elevations = <<>> /\ output_dir = NoDir
    /\ hull_raises = FALSE /\ pc = "idle" /\ stages_run = <<>> /\ raised = NoError
    /\ building_outline = <<>> /\ floor_heights = <<>> /\ walls = <<>>
    /\ openings = <<>> /\ roof = <<>> /\ mesh = <<>> /\ returned = <<>>
    /\ files = {}

\* Lines 27-35: create the output directory, then validate the two lists.
ValidateInput ==
    /\ pc = "validate"
    /\ files' = IF output_dir # NoDir THEN files \cup {<<output_dir>>} ELSE files
    /\ stages_run' = Append(stages_run, "validate")
    /\ IF input_missing(floor_plans, elevations)
       THEN pc' = "raised" /\ raised' = "ValueError"
       ELSE pc' = "outline" /\ raised' = raised
    /\ UNCHANGED notRecon
    /\ UNCHANGED <<floor_plans, elevations, output_dir, hull_raises, building_outline,
                   floor_heights, walls, openings, roof, mesh, returned>>

\* Line 38
ExtractBuildingOutline ==
    /\ pc = "outline"
    /\ building_outline' = extract_building_outline(floor_plans)
    /\ stages_run' = Append(stages_run, "outline")
    /\ pc' = "floor_heights"
    /\ UNCHANGED notRecon
    /\ UNCHANGED <<floor_plans, elevations, output_dir, hull_raises, raised,
                   floor_heights, walls, openings, roof, mesh, returned, files>>

\* Line 41
ExtractFloorHeights ==
    /\ pc = "floor_heights"
    /\ floor_heights' = extract_floor_heights(elevations)
    /\ stages_run' = Append(stages_run, "floor_heights")
    /\ pc' = "walls"
    /\ UNCHANGED notRecon
    /\ UNCHANGED <<floor_plans, elevations, output_dir, hull_raises, raised,
                   building_outline, walls, openings, roof, mesh, returned, files>>

\* CreateWalls with the IndexError swallowed: the run goes on to the openings.
CreateWalls_m ==
    /\ pc = "walls"
    /\ stages_run' = Append(stages_run, "walls")
    /\ LET r == create_walls(floor_plans, floor_heights)
       IN  /\ pc' = "openings"
           /\ raised' = r.raised
           /\ walls' = r.value
    /\ UNCHANGED notRecon
    /\ UNCHANGED <<floor_plans, elevations, output_dir, hull_raises,
                   building_outline, floor_heights, openings, roof, mesh, returned,
                   files>>

\* Line 44: the IndexError of _create_walls is not caught and ends the run.
CreateWalls ==
    /\ pc = "walls"
    /\ stages_run' = Append(stages_run, "walls")
    /\ LET r == create_walls(floor_plans, floor_heights)
       IN  IF r.raised # NoError
           THEN pc' = "raised" /\ raised' = r.raised /\ walls' = walls
           ELSE pc' = "openings" /\ raised' = raised /\ walls' = r.value
    /\ UNCHANGED notRecon
    /\ UNCHANGED <<floor_plans, elevations, output_dir, hull_raises,
                   building_outline, floor_heights, openings, roof, mesh, returned,
                   files>>

\* Line 47
CreateOpenings ==
    /\ pc = "openings"
    /\ openings' = create_openings(floor_plans, elevations)
    /\ stages_run' = Append(stages_run, "openings")
    /\ pc' = "roof"
    /\ UNCHANGED notRecon
    /\ UNCHANGED <<floor_plans, elevations, output_dir, hull_raises, raised,
                   building_outline, floor_heights, walls, roof, mesh, returned, files>>

\* Line 50: the roof is made from the LAST floor plan.
CreateRoof ==
    /\ pc = "roof"
    /\ roof' = create_roof(floor_plans[Len(floor_plans)], elevations)
    /\ stages_run' = Append(stages_run, "roof")
    /\ pc' = "mesh"
    /\ UNCHANGED notRecon
    /\ UNCHANGED <<floor_plans, elevations, output_dir, hull_raises, raised,
                   building_outline, floor_heights, walls, openings, mesh, returned,
                   files>>

\* Lines 53-62
building_model_of ==
    [outline |-> building_outline, floors |-> floor_heights, walls |-> walls,
     openings |-> openings, roof |-> roof]

GenerateMesh ==
    /\ pc = "mesh"
    /\ mesh' = generate_mesh(building_model_of)
    /\ stages_run' = Append(stages_run, "mesh")
    /\ pc' = "return"
    /\ UNCHANGED notRecon
    /\ UNCHANGED <<floor_plans, elevations, output_dir, hull_raises, raised,
                   building_outline, floor_heights, walls, openings, roof, returned,
                   files>>

\* Lines 64-72: export the mesh when an output directory was given, return.
SaveAndReturn ==
    /\ pc = "return"
    /\ files' = IF output_dir # NoDir THEN files \cup {MeshFile(output_dir)} ELSE files
    /\ returned' = <<[building_model |-> building_model_of, mesh |-> mesh]>>
    /\ pc' = "done"
    /\ UNCHANGED notRecon
    /\ UNCHANGED <<floor_plans, elevations, output_dir, hull_raises, stages_run,
                   raised, building_outline, floor_heights, walls, openings, roof,
                   mesh>>

Next ==
    \/ ValidateInput
    \/ ExtractBuildingOutline
    \/ ExtractFloorHeights
    \/ CreateWalls
    \/ CreateOpenings
    \/ CreateRoof
    \/ GenerateMesh
    \/ SaveAndReturn

\* ---------------------------------------------------------------------------
\* FeatureExtractor._process_windows
\* ---------------------------------------------------------------------------
HorizontalRatio == 2      \* aspect_ratio > 2
VerticalRatioInv == 2     \* aspect_ratio < 0.5, written 1 / 2
PictureArea == 10000      \* area > 10000

\* Line 203: width / height if height > 0 else 0, kept as a fraction.
aspect_ratio_of(width, height) ==
    IF height > 0 THEN [num |-> width, den |-> height] ELSE [num |-> 0, den |-> 1]

\* Lines 206-212.  r.den > 0, so r > 2 is r.num > 2 * r.den and r < 0.5 is
\* 2 * r.num < r.den.
window_type_of_m(width, height) ==
    LET r == aspect_ratio_of(width, height)
    IN  IF r.num >= HorizontalRatio * r.den THEN "horizontal"
        ELSE IF VerticalRatioInv * r.num < r.den THEN "vertical"
        ELSE IF width * height > PictureArea THEN "picture"
        ELSE "standard"

window_type_of(width, height) ==
    LET r == aspect_ratio_of(width, height)
    IN  IF r.num > HorizontalRatio * r.den THEN "horizontal"
        ELSE IF VerticalRatioInv * r.num < r.den THEN "vertical"
        ELSE IF width * height > PictureArea THEN "picture"
        ELSE "standard"

RECURSIVE process_windows(_)
process_windows(windows) ==
    IF windows = <<>> THEN <<>>
    ELSE LET window == Head(windows)
             width  == window.width
             height == window.height
         IN  <<[type         |-> "window",
                points       |-> window.points,
                width        |-> width,
                height       |-> height,
                area         |-> width * height,
                aspect_ratio |-> aspect_ratio_of(width, height),
                window_type  |-> window_type_of(width, height)]>>
             \o process_windows(Tail(windows))

\* Detected windows: the axis-aligned rectangle at (x, y) of the given size.
MaxWindows == 2
WindowSizes == {0, 25, 50, 100, 101, 200, 201}
WindowAt(x, y, w, h) ==
    [type |-> "window",
     points |-> << <<x, y>>, <<x + w, y>>, <<x + w, y + h>>, <<x, y + h>> >>,
     width |-> w, height |-> h]

InitWindows ==
    /\ \E n \in 1..MaxWindows : \E ws, hs \in [1..n -> WindowSizes] :
          win_in = [k \in 1..n |-> WindowAt(k - 1, 0, ws[k], hs[k])]
    /\ win_out = <<>>
    /\ IdleRecon /\ IdleThick /\ IdleScale /\ IdleDetect /\ IdleUpload /\ IdleFeat /\ IdleApply /\ IdleProc

CallProcessWindows ==
    /\ win_out = <<>>
    /\ win_out' = <<process_windows(win_in)>>
    /\ UNCHANGED <<win_in, thickVars, scaleVars>>
    /\ UNCHANGED <<reconVars, detectVars, uploadVars, featVars, applyVars, procVars>>

NextWindows == CallProcessWindows

SpecWindows == InitWindows /\ [][NextWindows]_vars

\* ---------------------------------------------------------------------------
\* FeatureExtractor._estimate_wall_thickness
\* An image is [shape |-> <<rows, cols>>, px |-> [y -> [x -> 0..255]]], read
\* as image[y, x].  Endpoints are integer pixel coordinates <<x, y>>.
\* ---------------------------------------------------------------------------
SamplePoints == 5     \* sample_points=5
MaxDist      == 20    \* max_dist = 20
Threshold    == 128   \* threshold = 128
DefaultEstimate == [num |-> 1, den |-> 1]   \* 1.0

\* int(num / den), den > 0: Python's int() truncates toward zero.
TruncDiv(num, den) == IF num >= 0 THEN num \div den ELSE -((-num) \div den)

\* int(base + q / sqrt(n)) for integers base, q and n > 0, computed exactly:
\* k is the integer part of |q| / sqrt(n), at most |q| because n >= 1.
TruncOffset(base, q, n) ==
    LET a     == Abs(q)
        k     == CHOOSE j \in 0..a : j * j * n <= a * a /\ (j + 1) * (j + 1) * n > a * a
        exact == k * k * n = a * a
        lo    == IF q >= 0 THEN base + k ELSE base - k - (IF exact THEN 0 ELSE 1)
        hi    == IF q >= 0 THEN base + k + (IF exact THEN 0 ELSE 1) ELSE base - k
    IN  IF lo >= 0 THEN lo ELSE hi

InImage(image, x, y) ==
    x >= 0 /\ x < image.shape[2] /\ y >= 0 /\ y < image.shape[1]

\* Lines 145-157: the in-bounds pixels at distances -max_dist..max_dist from
\* the sample point along the perpendicular (-dy, dx) / length.
profile_at(image, sample_x, sample_y, dx, dy) ==
    LET n == dx * dx + dy * dy
        F[d \in (-MaxDist - 1)..MaxDist] ==
            IF d < -MaxDist THEN <<>>
            ELSE LET x == TruncOffset(sample_x, -(d * dy), n)
                     y == TruncOffset(sample_y, d * dx, n)
                 IN  IF InImage(image, x, y) THEN Append(F[d - 1], image.px[y][x])
                     ELSE F[d - 1]
    IN  F[MaxDist]

\* Line 166: (profile < threshold).astype(np.uint8) * 255
binary_of(profile) == [k \in DOMAIN profile |-> IF profile[k] < Threshold THEN 255 ELSE 0]

\* Lines 169-170: np.diff of a uint8 array wraps modulo 256; the 0-based
\* indices where the difference is not 0.
transition_indices(binary_profile) ==
    {k \in 0..(Len(binary_profile) - 2) :
        (binary_profile[k + 2] - binary_profile[k + 1]) % 256 # 0}

\* Lines 172-175: the thickness one profile contributes, if any.
profile_thickness_m(profile) ==
    LET idx == transition_indices(binary_of(profile))
    IN  IF Cardinality(idx) >= 1 THEN <<Max(idx) - Min(idx)>> ELSE <<>>

profile_thickness(profile) ==
    LET idx == transition_indices(binary_of(profile))
    IN  IF Cardinality(idx) >= 2 THEN <<Max(idx) - Min(idx)>> ELSE <<>>

\* Lines 133-175: the list of thicknesses over the sample points i = 0..4.
sample_thicknesses(image, p1, p2) ==
    LET dx == p2[1] - p1[1]
        dy == p2[2] - p1[2]
        F[i \in -1..(SamplePoints - 1)] ==
            IF i < 0 THEN <<>>
            ELSE LET sample_x == TruncDiv((SamplePoints - 1) * p1[1] + i * dx, SamplePoints - 1)
                     sample_y == TruncDiv((SamplePoints - 1) * p1[2] + i * dy, SamplePoints - 1)
                 IN  IF ~ InImage(image, sample_x, sample_y) THEN F[i - 1]
                     ELSE LET profile == profile_at(image, sample_x, sample_y, dx, dy)
                          IN  IF profile = <<>> THEN F[i - 1]
                              ELSE F[i - 1] \o profile_thickness(profile)
    IN  F[SamplePoints - 1]

\* The whole method; the mean is kept as the fraction sum / count.
estimate_wall_thickness(image, p1, p2) ==
    IF p1 = p2 THEN DefaultEstimate
    ELSE LET thicknesses == sample_thicknesses(image, p1, p2)
         IN  IF thicknesses # <<>>
             THEN [num |-> SumSeq(thicknesses), den |-> Len(thicknesses)]
             ELSE DefaultEstimate

\* Images: ImgSize by ImgSize pixels, light (128) except for a dark (127)
\* rectangle of columns c0..c1 and rows r0..r1 (none when c0 > c1).
ImgSize == 3
BarImage(c0, c1, r0, r1) ==
    [shape |-> <<ImgSize, ImgSize>>,
     px |-> [y \in 0..(ImgSize - 1) |-> [x \in 0..(ImgSize - 1) |->
                IF c0 <= x /\ x <= c1 /\ r0 <= y /\ y <= r1 THEN 127 ELSE 128]]]

\* A blank image, every vertical dark bar and every horizontal dark bar (the
\* bar over all columns or rows is the all-dark image).
Spans == {c \in (0..(ImgSize - 1)) \X (0..(ImgSize - 1)) : c[1] <= c[2]}
Images ==
    {BarImage(1, 0, 0, 0)}
    \cup {BarImage(c[1], c[2], 0, ImgSize - 1) : c \in Spans}
    \cup {BarImage(0, ImgSize - 1, r[1], r[2]) : r \in Spans}

\* Endpoints range one pixel beyond the image on every side.
Coords == (-1)..ImgSize

InitThick ==
    /\ \E image \in Images : \E p1, p2 \in Coords \X Coords :
          thick_in = [image |-> image, p1 |-> p1, p2 |-> p2]
    /\ thick_out = <<>>
    /\ IdleRecon /\ IdleWin /\ IdleScale /\ IdleDetect /\ IdleUpload /\ IdleFeat /\ IdleApply /\ IdleProc

CallEstimateWallThickness ==
    /\ thick_out = <<>>
    /\ thick_out' = <<estimate_wall_thickness(thick_in.image, thick_in.p1, thick_in.p2)>>
    /\ UNCHANGED <<thick_in, winVars, scaleVars>>
    /\ UNCHANGED <<reconVars, detectVars, uploadVars, featVars, applyVars, procVars>>

NextThick == CallEstimateWallThickness

SpecThick == InitThick /\ [][NextThick]_vars

\* ---------------------------------------------------------------------------
\* The two ScaleConverter classes.  Lengths and scale factors are exact
\* fractions [num, den] in lowest terms (the code computes them in floating
\* point).
\* ---------------------------------------------------------------------------
RECURSIVE GCD(_, _)
GCD(a, b) == IF b = 0 THEN a ELSE GCD(b, a % b)

Frac(n, d) == LET g == GCD(n, d) IN [num |-> n \div g, den |-> d \div g]
\* Products are reduced crosswise before multiplying, to keep them small.
RMul(a, b) ==
    LET g1 == GCD(a.num, b.den)
        g2 == GCD(b.num, a.den)
    IN  Frac((a.num \div g1) * (b.num \div g2), (a.den \div g2) * (b.den \div g1))
RDiv(a, b) == RMul(a, [num |-> b.den, den |-> b.num])

\* dict[key] = value
Put(d, key, value) == [k \in DOMAIN d \cup {key} |-> IF k = key THEN value ELSE d[k]]

Returned(v)  == [outcome |-> "returned", value |-> <<v>>]
Raises(exc)  == [outcome |-> exc, value |-> <<>>]

\* ---- src/deployment/api/image_processing/scale_converter.py ----

\* The multipliers of _convert_to_meters: 0.3048, 0.0254, 0.01.
meters_per(unit) ==
    CASE unit = "feet"   -> Frac(3048, 10000)
      [] unit = "inches" -> Frac(254, 10000)
      [] unit = "cm"     -> Frac(1, 100)

convert_to_meters(length, unit) ==
    IF unit = "meters" THEN length ELSE RMul(length, meters_per(unit))

convert_from_meters_m(length_meters, unit) ==
    IF unit = "meters" THEN length_meters ELSE RMul(length_meters, meters_per(unit))

convert_from_meters(length_meters, unit) ==
    IF unit = "meters" THEN length_meters ELSE RDiv(length_meters, meters_per(unit))

\* The entry set_scale stores for an image (lines 26-38).
deployment_scale_entry(pixel_length, real_length, unit) ==
    [scale_factor  |-> RDiv(convert_to_meters(real_length, unit), pixel_length),
     original_unit |-> unit,
     pixel_length  |-> pixel_length,
     real_length   |-> real_length]

\* pixels_to_real_world on a single length (lines 74-83).
pixels_to_real_world(sf, image_id, pixels, output_unit) ==
    IF image_id \notin DOMAIN sf THEN Raises("ValueError")
    ELSE Returned(convert_from_meters(RMul(pixels, sf[image_id].scale_factor), output_unit))

\* real_world_to_pixels on a single length (lines 122-131).
real_world_to_pixels(sf, image_id, real_world, input_unit) ==
    IF image_id \notin DOMAIN sf THEN Raises("ValueError")
    ELSE Returned(RDiv(convert_to_meters(real_world, input_unit), sf[image_id].scale_factor))

\* ---- src/backend/image_processing/scale_converter.py ----

backend_scale_entry(pixel_length, real_length, unit) ==
    [scale_factor |-> RDiv(real_length, pixel_length), unit |-> unit]

\* get_scale: an image without a scale gets the factor 1.0 in meters.
get_scale(sc, image_id) ==
    Get(sc, image_id, [scale_factor |-> Frac(1, 1), unit |-> "meters"])

pixels_to_real(sc, image_id, pixels) ==
    Returned(RMul(pixels, get_scale(sc, image_id).scale_factor))

real_to_pixels(sc, image_id, real_length) ==
    Returned(RDiv(real_length, get_scale(sc, image_id).scale_factor))

\* ---- calls on one converter object ----
ImageIds     == {"img1", "img2"}
Units        == {"meters", "feet", "inches", "cm"}
PixelLengths == {Frac(100, 1), Frac(3, 1)}
RealLengths  == {Frac(5, 1)}
Lengths      == {Frac(200, 1), Frac(15, 1), Frac(7, 1)}

InitScale ==
    /\ converter \in {"deployment", "backend"}
    /\ scale_factors = <<>> /\ scales = <<>> /\ calibrated = <<>> /\ conv = <<>>
    /\ IdleRecon /\ IdleWin /\ IdleThick /\ IdleDetect /\ IdleUpload /\ IdleFeat /\ IdleApply /\ IdleProc

IsConversion(c) == c # <<>> /\ c.op \in {"pixels_to_real", "real_to_pixels"}

\* The arguments a conversion may be called with: a fresh length, or the value
\* the previous (fresh) conversion in the opposite direction returned (the
\* deployment calls then convert back on the same image in the same unit,
\* which keeps the fractions within TLC's integers).
ConversionArgs(op) ==
    {[arg |-> v, chained |-> <<>>] : v \in Lengths}
    \cup (IF IsConversion(conv) /\ conv.op # op /\ conv.chained = <<>> /\ conv.value # <<>>
          THEN {[arg |-> conv.value[1],
                 chained |-> <<[arg |-> conv.arg, image_id |-> conv.image_id,
                                unit |-> conv.unit]>>]}
          ELSE {})

Call(op, image_id, unit, a, result) ==
    [op |-> op, image_id |-> image_id, unit |-> unit, arg |-> a.arg,
     chained |-> a.chained, outcome |-> result.outcome, value |-> result.value]

DeploymentSetScale ==
    /\ converter = "deployment"
    /\ \E image_id \in ImageIds, p \in PixelLengths, r \in RealLengths, unit \in Units :
          LET entry == deployment_scale_entry(p, r, unit)
          IN  /\ scale_factors' = Put(scale_factors, image_id, entry)
              /\ calibrated' = Put(calibrated, image_id,
                                   [pixel_length |-> p, real_length |-> r, unit |-> unit])
              /\ conv' = Call("set_scale", image_id, unit, [arg |-> r, chained |-> <<>>],
                              Returned(entry.scale_factor))
    /\ UNCHANGED <<scales, converter>>
    /\ UNCHANGED <<reconVars, winVars, thickVars, detectVars, uploadVars, featVars, applyVars, procVars>>

DeploymentPixelsToRealWorld ==
    /\ converter = "deployment"
    /\ \E image_id \in ImageIds, unit \in Units, a \in ConversionArgs("pixels_to_real") :
          /\ a.chained # <<>> =>
                a.chained[1].unit = unit /\ a.chained[1].image_id = image_id
          /\ conv' = Call("pixels_to_real", image_id, unit, a,
                          pixels_to_real_world(scale_factors, image_id, a.arg, unit))
    /\ UNCHANGED <<scale_factors, scales, converter, calibrated>>
    /\ UNCHANGED <<reconVars, winVars, thickVars, detectVars, uploadVars, featVars, applyVars, procVars>>

DeploymentRealWorldToPixels ==
    /\ converter = "deployment"
    /\ \E image_id \in ImageIds, unit \in Units, a \in ConversionArgs("real_to_pixels") :
          /\ a.chained # <<>> =>
                a.chained[1].unit = unit /\ a.chained[1].image_id = image_id
          /\ conv' = Call("real_to_pixels", image_id, unit, a,
                          real_world_to_pixels(scale_factors, image_id, a.arg, unit))
    /\ UNCHANGED <<scale_factors, scales, converter, calibrated>>
    /\ UNCHANGED <<reconVars, winVars, thickVars, detectVars, uploadVars, featVars, applyVars, procVars>>

BackendSetScale ==
    /\ converter = "backend"
    /\ \E image_id \in ImageIds, p \in PixelLengths, r \in RealLengths, unit \in Units :
          LET entry == backend_scale_entry(p, r, unit)
          IN  /\ scales' = Put(scales, image_id, entry)
              /\ calibrated' = Put(calibrated, image_id,
                                   [pixel_length |-> p, real_length |-> r, unit |-> unit])
              /\ conv' = Call("set_scale", image_id, unit, [arg |-> r, chained |-> <<>>],
                              Returned(entry.scale_factor))
    /\ UNCHANGED <<scale_factors, converter>>
    /\ UNCHANGED <<reconVars, winVars, thickVars, detectVars, uploadVars, featVars, applyVars, procVars>>

\* The backend conversions take no unit: the result is in get_scale's unit.
BackendPixelsToReal ==
    /\ converter = "backend"
    /\ \E image_id \in ImageIds, a \in ConversionArgs("pixels_to_real") :
          conv' = Call("pixels_to_real", image_id, get_scale(scales, image_id).unit, a,
                       pixels_to_real(scales, image_id, a.arg))
    /\ UNCHANGED <<scale_factors, scales, converter, calibrated>>
    /\ UNCHANGED <<reconVars, winVars, thickVars, detectVars, uploadVars, featVars, applyVars, procVars>>

BackendRealToPixels ==
    /\ converter = "backend"
    /\ \E image_id \in ImageIds, a \in ConversionArgs("real_to_pixels") :
          conv' = Call("real_to_pixels", image_id, get_scale(scales, image_id).unit, a,
                       real_to_pixels(scales, image_id, a.arg))
    /\ UNCHANGED <<scale_factors, scales, converter, calibrated>>
    /\ UNCHANGED <<reconVars, winVars, thickVars, detectVars, uploadVars, featVars, applyVars, procVars>>

NextScale ==
    \/ DeploymentSetScale
    \/ DeploymentPixelsToRealWorld
    \/ DeploymentRealWorldToPixels
    \/ BackendSetScale
    \/ BackendPixelsToReal
    \/ BackendRealToPixels

SpecScale == InitScale /\ [][NextScale]_vars

\* ---------------------------------------------------------------------------
\* EdgeDetector.detect_architectural_elements (src/edge_detector.py)
\* What the OpenCV searches find on the image is the input of the model:
\*   wall_lines, door_lines  cv2.HoughLinesP: None (<<>>) or <<lines>>, lines a
\*                           non-empty list of segments <<x1, y1, x2, y2>>;
\*   contours                cv2.findContours: a list, each contour given by
\*                           the vertex count of its polygon approximation and
\*                           the sides w, h >= 1 of its bounding rectangle;
\*   circles                 cv2.HoughCircles: None (<<>>) or <<circles>>, a
\*                           non-empty list of <<center_x, center_y, radius>>.
\* ---------------------------------------------------------------------------
MinWallLength   == 50    \* length > 50
MinDoorLength   == 30    \* 30 < length
MaxDoorLength   == 100   \* length < 100
WindowVertices  == 4     \* len(approx) == 4
WindowRatioInv  == 2     \* 0.5 < aspect_ratio, written 1 / 2
WindowMaxRatio  == 4     \* aspect_ratio < 4
WindowMinSide   == 20    \* 20 < w, 20 < h
WindowMaxSide   == 200   \* w < 200, h < 200

SquaredLength(line) ==
    (line[3] - line[1]) * (line[3] - line[1]) + (line[4] - line[2]) * (line[4] - line[2])

\* np.sqrt((x2 - x1)**2 + (y2 - y1)**2)
line_length(line) == ISqrt(SquaredLength(line))

\* np.arctan2(y2 - y1, x2 - x1) * 180 / np.pi, on axis-aligned segments.
angle_of(line) ==
    IF line[4] = line[2] THEN (IF line[3] >= line[1] THEN 0 ELSE 180)
    ELSE IF line[4] > line[2] THEN 90 ELSE -90

\* Lines 209-222: the segments longer than 50, as wall dicts.
RECURSIVE walls_of_lines(_)
walls_of_lines(lines) ==
    IF lines = <<>> THEN <<>>
    ELSE LET line == Head(lines)
         IN  (IF SquaredLength(line) > MinWallLength * MinWallLength
              THEN <<[type   |-> "wall",
                      points |-> << <<line[1], line[2]>>, <<line[3], line[4]>> >>,
                      length |-> line_length(line)]>>
              ELSE <<>>)
             \o walls_of_lines(Tail(lines))

\* _detect_walls without the 'lines is not None' test: iterating None raises.
detect_walls_m(wall_lines) ==
    IF wall_lines = <<>> THEN Raises("TypeError")
    ELSE Returned(walls_of_lines(wall_lines[1]))

\* _detect_walls: 'for line in lines' runs only when lines is not None.
detect_walls(wall_lines) ==
    IF wall_lines # <<>> THEN Returned(walls_of_lines(wall_lines[1]))
    ELSE Returned(<<>>)

\* The filter without its lower bound on the ratio w / h.
RECURSIVE windows_of_contours_m(_)
windows_of_contours_m(contours) ==
    IF contours = <<>> THEN <<>>
    ELSE LET c == Head(contours)
             w == c.w
             h == c.h
         IN  (IF /\ c.vertices = WindowVertices
                 /\ w < WindowMaxRatio * h
                 /\ WindowMinSide < w /\ w < WindowMaxSide
                 /\ WindowMinSide < h /\ h < WindowMaxSide
              THEN <<[type   |-> "window",
                      points |-> << <<c.x, c.y>>, <<c.x + w, c.y>>,
                                    <<c.x + w, c.y + h>>, <<c.x, c.y + h>> >>,
                      width  |-> w,
                      height |-> h]>>
              ELSE <<>>)
             \o windows_of_contours_m(Tail(contours))

\* Lines 246-263: 4-vertex contours whose bounding rectangle passes the filter
\* 0.5 < w / h < 4 and 20 < w < 200 and 20 < h < 200.
RECURSIVE windows_of_contours(_)
windows_of_contours(contours) ==
    IF contours = <<>> THEN <<>>
    ELSE LET c == Head(contours)
             w == c.w
             h == c.h
         IN  (IF /\ c.vertices = WindowVertices
                 /\ WindowRatioInv * w > h /\ w < WindowMaxRatio * h
                 /\ WindowMinSide < w /\ w < WindowMaxSide
                 /\ WindowMinSide < h /\ h < WindowMaxSide
              THEN <<[type   |-> "window",
                      points |-> << <<c.x, c.y>>, <<c.x + w, c.y>>,
                                    <<c.x + w, c.y + h>>, <<c.x, c.y + h>> >>,
                      width  |-> w,
                      height |-> h]>>
              ELSE <<>>)
             \o windows_of_contours(Tail(contours))

detect_windows(contours) == Returned(windows_of_contours(contours))

\* Lines 288-296: one door_arc per circle.
RECURSIVE doors_of_circles(_)
doors_of_circles(circles) ==
    IF circles = <<>> THEN <<>>
    ELSE LET circle == Head(circles)
         IN  <<[type |-> "door_arc", center |-> <<circle[1], circle[2]>>,
                radius |-> circle[3]]>>
             \o doors_of_circles(Tail(circles))

\* Lines 303-321: one door_line per segment with 30 < length < 100.
RECURSIVE doors_of_lines(_)
doors_of_lines(lines) ==
    IF lines = <<>> THEN <<>>
    ELSE LET line == Head(lines)
         IN  (IF /\ MinDoorLength * MinDoorLength < SquaredLength(line)
                 /\ SquaredLength(line) < MaxDoorLength * MaxDoorLength
              THEN <<[type   |-> "door_line",
                      points |-> << <<line[1], line[2]>>, <<line[3], line[4]>> >>,
                      length |-> line_length(line),
                      angle  |-> angle_of(line)]>>
              ELSE <<>>)
             \o doors_of_lines(Tail(lines))

\* _detect_doors: the arcs first, then the lines; each search is skipped when
\* it returned None.
detect_doors(circles, door_lines) ==
    Returned( (IF circles # <<>> THEN doors_of_circles(circles[1]) ELSE <<>>)
              \o (IF door_lines # <<>> THEN doors_of_lines(door_lines[1]) ELSE <<>>) )

\* Lines 170-186: the result dict gets one key per requested element; an
\* exception of a detector leaves the method at once.
detect_architectural_elements(element_type, found) ==
    LET wanted(k) == element_type \in {k, "all"}
        ws == detect_walls(found.wall_lines)
        ns == detect_windows(found.contours)
        ds == detect_doors(found.circles, found.door_lines)
        r1 == IF wanted("walls") THEN Put(<<>>, "walls", ws.value) ELSE <<>>
        r2 == IF wanted("windows") THEN Put(r1, "windows", ns.value) ELSE r1
        r3 == IF wanted("doors") THEN Put(r2, "doors", ds.value) ELSE r2
    IN  IF wanted("walls") /\ ws.outcome # "returned" THEN Raises(ws.outcome)
        ELSE IF wanted("windows") /\ ns.outcome # "returned" THEN Raises(ns.outcome)
        ELSE IF wanted("doors") /\ ds.outcome # "returned" THEN Raises(ds.outcome)
        ELSE [outcome |-> "returned",
              value   |-> [k \in DOMAIN r3 |-> r3[k][1]]]

MaxPrimitives == 2   \* at most this many lines, contours or circles per search

ElementTypes    == {"all", "walls", "windows", "doors", "roof"}
WallLineSamples == { <<0, 0, 50, 0>>, <<0, 0, 0, 60>> }
DoorLineSamples == { <<0, 0, 30, 0>>, <<5, 0, 5, 40>> }
ContourSamples  ==
    { [vertices |-> 4, x |-> 1, y |-> 2, w |-> 60, h |-> 30],    \* a window
      [vertices |-> 4, x |-> 0, y |-> 0, w |-> 20, h |-> 30],    \* side not > 20
      [vertices |-> 5, x |-> 0, y |-> 0, w |-> 60, h |-> 30] }   \* not a rectangle
CircleSamples   == { <<12, 14, 10>> }

\* None, or a non-empty array of at most MaxPrimitives elements of S.
OptionalArray(S) == {<<>>} \cup {<<a>> : a \in SeqsUpTo(S, MaxPrimitives) \ {<<>>}}

InitDetect ==
    /\ det_in \in [element_type : ElementTypes,
                   wall_lines   : OptionalArray(WallLineSamples),
                   contours     : SeqsUpTo(ContourSamples, MaxPrimitives),
                   circles      : OptionalArray(CircleSamples),
                   door_lines   : OptionalArray(DoorLineSamples)]
    /\ det_out = <<>>
    /\ IdleRecon /\ IdleWin /\ IdleThick /\ IdleScale /\ IdleUpload /\ IdleFeat /\ IdleApply /\ IdleProc

CallDetectArchitecturalElements ==
    /\ det_out = <<>>
    /\ det_out' = <<detect_architectural_elements(det_in.element_type, det_in)>>
    /\ UNCHANGED <<det_in, reconVars, winVars, thickVars, scaleVars, uploadVars, featVars, applyVars, procVars>>

NextDetect == CallDetectArchitecturalElements

SpecDetect == InitDetect /\ [][NextDetect]_vars

\* ---------------------------------------------------------------------------
\* upload_file, the POST /api/upload endpoint (src/deployment/api/app.py)
\* A request is [has_file, filename, form, processing]: whether a 'file' part
\* is present, its filename, the form fields that are present, and whether
\* image_processor.process_building_plan returns or raises on the saved file.
\* ---------------------------------------------------------------------------

\* werkzeug's secure_filename: whitespace becomes '_', path separators are
\* dropped and leading and trailing dots are stripped, so a name made of dots
\* and separators only becomes the empty string.
secure_filename(name) ==
    CASE name = "test.pdf"    -> "test.pdf"
      [] name = "my plan.png" -> "my_plan.png"
      [] name = ".."          -> ""
      [] OTHER                -> name

\* os.path.splitext(filename)[0]
splitext_root(filename) ==
    CASE filename = "test.pdf"    -> "test"
      [] filename = "my_plan.png" -> "my_plan"
      [] OTHER                    -> filename

\* f"{root}_processed.json"
result_filename_of(filename) == <<splitext_root(filename), "_processed.json">>

\* int(floor_level): the value, or <<>> when the string is not a number.
int_of(text) ==
    CASE text = "0" -> <<0>>
      [] text = "2" -> <<2>>
      [] OTHER      -> <<>>

JsonResponse(status, body) == [status |-> status, body |-> body]

ErrorBody(message) == [error |-> message]

\* Lines 53-93: the try block, entered after the file was saved.
process_upload(req, filename) ==
    LET file_type   == Get(req.form, "type", "unknown")
        orientation == Get(req.form, "orientation", "unknown")
        floor_level == Get(req.form, "floorLevel", "0")
        call == IF file_type = "floorPlan"
                THEN [file |-> filename, plan_type |-> "floor_plan"]
                ELSE [file |-> filename, plan_type |-> "elevation",
                      orientation |-> orientation]
    IN  IF file_type \notin {"floorPlan", "elevation"}
        THEN [response |-> JsonResponse(400, ErrorBody("Invalid file type")),
              calls |-> <<>>, written |-> {}]
        ELSE IF req.processing = "raises"
        THEN [response |-> JsonResponse(500, ErrorBody("processing failed")),
              calls |-> <<call>>, written |-> {}]
        ELSE IF file_type = "floorPlan" /\ int_of(floor_level) = <<>>
        THEN [response |-> JsonResponse(500, ErrorBody("invalid literal for int()")),
              calls |-> <<call>>, written |-> {}]
        ELSE [response |->
                JsonResponse(200,
                    [success     |-> TRUE,
                     filename    |-> filename,
                     result_file |-> result_filename_of(filename),
                     file_type   |-> file_type,
                     orientation |-> IF file_type = "elevation" THEN orientation ELSE None,
                     floor_level |-> IF file_type = "floorPlan" THEN floor_level ELSE None]),
              calls |-> <<call>>, written |-> {result_filename_of(filename)}]

\* The whole handler.  file.save runs before the file type is looked at and
\* outside the try block: with an empty secured name the target path is the
\* upload folder itself, the save raises and the request ends as a server
\* error.
upload_file(req) ==
    IF ~ req.has_file
    THEN [response |-> JsonResponse(400, ErrorBody("No file part")),
          saved |-> {}, calls |-> <<>>, written |-> {}]
    ELSE IF req.filename = ""
    THEN [response |-> JsonResponse(400, ErrorBody("No selected file")),
          saved |-> {}, calls |-> <<>>, written |-> {}]
    ELSE LET filename == secure_filename(req.filename)
         IN  IF filename = ""
             THEN [response |-> JsonResponse(500, ErrorBody("Internal Server Error")),
                   saved |-> {}, calls |-> <<>>, written |-> {}]
             ELSE LET r == process_upload(req, filename)
                  IN  [response |-> r.response, saved |-> {filename},
                       calls |-> r.calls, written |-> r.written]

FileNames   == {"", "test.pdf", "my plan.png", ".."}
FileTypes   == {"floorPlan", "elevation", "invalid"}
FloorLevels == {"0", "2", "x"}

\* The form of a request: 'type' and 'floorLevel' are each present or absent.
Forms ==
    {<<>>}
    \cup {[type |-> t] : t \in FileTypes}
    \cup {[type |-> t, floorLevel |-> l] : t \in FileTypes, l \in FloorLevels}
    \cup {[type |-> "elevation", orientation |-> "north"]}

InitUpload ==
    /\ request \in [has_file : BOOLEAN, filename : FileNames, form : Forms,
                    processing : {"returns", "raises"}]
    /\ response = <<>>
    /\ upload_folder = {}
    /\ results_folder = {}
    /\ processor_calls = <<>>
    /\ IdleRecon /\ IdleWin /\ IdleThick /\ IdleScale /\ IdleDetect /\ IdleFeat /\ IdleApply /\ IdleProc

UploadFile ==
    /\ response = <<>>
    /\ LET r == upload_file(request)
       IN  /\ response' = <<r.response>>
           /\ upload_folder' = upload_folder \cup r.saved
           /\ results_folder' = results_folder \cup r.written
           /\ processor_calls' = processor_calls \o r.calls
    /\ UNCHANGED <<request, reconVars, winVars, thickVars, scaleVars, detectVars,
                   featVars, applyVars, procVars>>

NextUpload == UploadFile

SpecUpload == InitUpload /\ [][NextUpload]_vars

\* ---------------------------------------------------------------------------
\* FeatureExtractor._process_walls, _process_doors and _extract_rooms
\* (src/backend/image_processing/feature_extractor.py)
\* ---------------------------------------------------------------------------
DoubleDoorLength == 80    \* length > 80
SwingAngle       == 90    \* 'swing_angle': 90
MinRoomArea      == 1000  \* area < 1000

\* Line 81: np.degrees(np.arctan2(dy, dx)) % 180.  The angle in [0, 180) is
\* kept as the direction (dx, dy) turned into the upper half plane; a
\* direction along the x axis (and the null direction) has angle 0.
angle_mod_180(dx, dy) ==
    IF dy < 0 THEN <<-dx, -dy>>
    ELSE IF dy = 0 THEN <<Abs(dx), 0>>
    ELSE <<dx, dy>>

\* Comparisons of such an angle with 45 and with 135 degrees.
angle_lt_45(angle)  == angle[2] = 0 \/ (angle[1] > 0 /\ angle[2] < angle[1])
angle_lt_135(angle) == angle[2] = 0 \/ angle[1] >= 0 \/ angle[2] > -angle[1]

\* Lines 84-86: the conditional expression, then the override.
orientation_of(angle) ==
    LET orientation == IF angle_lt_45(angle) \/ ~angle_lt_135(angle)
                       THEN "horizontal" ELSE "vertical"
    IN  IF ~angle_lt_45(angle) /\ angle_lt_135(angle) THEN "diagonal"
        ELSE orientation

\* Lines 72-96 for one wall; 'p1, p2 = points' has been checked by the caller.
enhanced_wall_of(wall, image) ==
    LET points == wall.points
        p1     == points[1]
        p2     == points[2]
        angle  == angle_mod_180(p2[1] - p1[1], p2[2] - p1[2])
    IN  [type        |-> "wall",
         points      |-> points,
         length      |-> wall.length,
         thickness   |-> estimate_wall_thickness(image, p1, p2),
         angle       |-> angle,
         orientation |-> orientation_of(angle)]

\* _process_walls: unpacking a points list that has not exactly two elements
\* raises ValueError and ends the call.
process_walls(walls_arg, image) ==
    IF \E k \in DOMAIN walls_arg : Len(walls_arg[k].points) # 2
    THEN Raises("ValueError")
    ELSE Returned([k \in DOMAIN walls_arg |-> enhanced_wall_of(walls_arg[k], image)])

\* Lines 245-281 for one door element: a list of zero or one door.
enhanced_door_of_m(door) ==
    IF door.type = "door_arc"
    THEN <<[type        |-> "door",
            door_type   |-> "swing",
            center      |-> door.center,
            radius      |-> door.radius,
            swing_angle |-> SwingAngle]>>
    ELSE IF door.type = "door_line"
    THEN <<[type      |-> "door",
            door_type |-> IF door.length >= DoubleDoorLength THEN "double" ELSE "standard",
            points    |-> door.points,
            length    |-> door.length,
            angle     |-> door.angle]>>
    ELSE <<>>

enhanced_door_of(door) ==
    IF door.type = "door_arc"
    THEN <<[type        |-> "door",
            door_type   |-> "swing",
            center      |-> door.center,
            radius      |-> door.radius,
            swing_angle |-> SwingAngle]>>
    ELSE IF door.type = "door_line"
    THEN <<[type      |-> "door",
            door_type |-> IF door.length > DoubleDoorLength THEN "double" ELSE "standard",
            points    |-> door.points,
            length    |-> door.length,
            angle     |-> door.angle]>>
    ELSE <<>>

RECURSIVE process_doors(_)
process_doors(doors) ==
    IF doors = <<>> THEN <<>>
    ELSE enhanced_door_of(Head(doors)) \o process_doors(Tail(doors))

\* ---- _extract_rooms ----
\* The watershed segmentation is an input of the model: regions[k] is the list
\* of contours that measure.find_contours returns for label k + 1, each
\* contour a list of (row, column) positions counted in HALF pixels.

\* max(contours, key=len): the first contour of maximal length.
largest_contour_of(contours) ==
    LET best == Max({Len(contours[k]) : k \in DOMAIN contours})
    IN  contours[Min({k \in DOMAIN contours : Len(contours[k]) = best})]

\* Line 337: [(int(x), int(y)) for y, x in largest_contour].
int_points_of(contour) ==
    [k \in DOMAIN contour |-> <<TruncDiv(contour[k][2], 2), TruncDiv(contour[k][1], 2)>>]

\* The sums cv2.contourArea and cv2.moments take over the closed polygon:
\* a00 is twice the signed area, a10 and a01 six times the first moments.
Prev(points, k) == IF k = 1 THEN points[Len(points)] ELSE points[k - 1]
Cross(p, q) == p[1] * q[2] - q[1] * p[2]
a00(points) == SumSeq([k \in DOMAIN points |-> Cross(Prev(points, k), points[k])])
a10(points) ==
    SumSeq([k \in DOMAIN points |->
               Cross(Prev(points, k), points[k]) * (Prev(points, k)[1] + points[k][1])])
a01(points) ==
    SumSeq([k \in DOMAIN points |->
               Cross(Prev(points, k), points[k]) * (Prev(points, k)[2] + points[k][2])])

\* cv2.contourArea: the absolute area, as a fraction.
contourArea(points) == Frac(Abs(a00(points)), 2)

\* Lines 347-353: m10 / m00 = a10 / (3 * a00), truncated by int().
centroid_of(points) ==
    LET s == IF a00(points) < 0 THEN -1 ELSE 1
    IN  IF a00(points) # 0
        THEN <<TruncDiv(s * a10(points), 3 * s * a00(points)),
               TruncDiv(s * a01(points), 3 * s * a00(points))>>
        ELSE <<0, 0>>

\* Lines 330-364 for the region of one label: a list of zero or one room.
room_of(contours, label) ==
    IF contours = <<>> THEN <<>>
    ELSE LET points == int_points_of(largest_contour_of(contours))
             area   == contourArea(points)
         IN  IF area.num < MinRoomArea * area.den THEN <<>>
             ELSE <<[type     |-> "room",
                     points   |-> points,
                     area     |-> area,
                     centroid |-> centroid_of(points),
                     label    |-> label]>>

\* Line 324: for label in range(2, np.max(segmented) + 1).
RECURSIVE rooms_from(_, _)
rooms_from(regions, k) ==
    IF k > Len(regions) THEN <<>>
    ELSE room_of(regions[k], k + 1) \o rooms_from(regions, k + 1)

extract_rooms(regions) == rooms_from(regions, 1)

\* ---- one call of one of the three methods ----
\* Detected walls between pixels of the image and its one-pixel border.
WallBetween(p1, p2) ==
    [type   |-> "wall",
     points |-> <<p1, p2>>,
     length |-> ISqrt((p2[1] - p1[1]) * (p2[1] - p1[1]) + (p2[2] - p1[2]) * (p2[2] - p1[2]))]
WallSamples ==
    {WallBetween(<<0, 0>>, q) :
        q \in {<<2, 0>>, <<2, 1>>, <<2, 2>>, <<1, 2>>, <<0, 2>>, <<-1, 2>>, <<-1, 1>>,
               <<-1, 0>>, <<1, -1>>, <<0, -1>>}}
FeatureImages == {BarImage(1, 0, 0, 0), BarImage(1, 1, 0, ImgSize - 1)}

\* Detected doors (lengths are those the detector lets through), and an element
\* of a type the detector does not emit.
DoorSamples ==
    {[type |-> "door_arc", center |-> <<40, 50>>, radius |-> 30]}
    \cup {[type |-> "door_line", points |-> << <<0, 0>>, <<l, 0>> >>, length |-> l, angle |-> 0]
             : l \in {31, 79, 80, 81, 99}}
    \cup {[type |-> "door_gap", points |-> << <<0, 0>>, <<90, 0>> >>, length |-> 90, angle |-> 0]}

\* A closed rectangular contour with its corner at half pixel (y2, x2), w by h
\* pixels, as (row, column) positions in half pixels.
RectContour(y2, x2, w, h) ==
    << <<y2, x2>>, <<y2, x2 + 2 * w>>, <<y2 + 2 * h, x2 + 2 * w>>, <<y2 + 2 * h, x2>>,
       <<y2, x2>> >>
\* A closed triangular contour: fewer positions than a rectangle.
TriContour(y2, x2, w, h) ==
    << <<y2, x2>>, <<y2, x2 + 2 * w>>, <<y2 + 2 * h, x2>>, <<y2, x2>> >>
RegionSamples ==
    {<<>>,
     <<RectContour(0, 0, 27, 37)>>,
     <<RectContour(1, 1, 25, 40)>>,
     <<RectContour(20, 10, 7, 143)>>,
     <<RectContour(0, 0, 30, 40)>>,
     <<TriContour(0, 0, 60, 60), RectContour(2, 2, 10, 10)>>,
     <<TriContour(0, 0, 50, 40), TriContour(0, 0, 60, 60)>>}

FeatureCalls ==
    {[method |-> "_process_walls", walls |-> ws, image |-> <<image>>, doors |-> <<>>,
      regions |-> <<>>] :
        ws \in SeqsUpTo(WallSamples, MaxPrimitives), image \in FeatureImages}
    \cup {[method |-> "_process_doors", walls |-> <<>>, image |-> <<>>, doors |-> ds,
           regions |-> <<>>] : ds \in SeqsUpTo(DoorSamples, MaxPrimitives)}
    \cup {[method |-> "_extract_rooms", walls |-> <<>>, image |-> <<>>, doors |-> <<>>,
           regions |-> rs] : rs \in SeqsUpTo(RegionSamples, MaxPrimitives)}

InitFeatures ==
    /\ fx_in \in FeatureCalls
    /\ fx_out = <<>>
    /\ IdleRecon /\ IdleWin /\ IdleThick /\ IdleScale /\ IdleDetect /\ IdleUpload
    /\ IdleApply /\ IdleProc

CallProcessWalls ==
    /\ fx_out = <<>> /\ fx_in.method = "_process_walls"
    /\ fx_out' = <<process_walls(fx_in.walls, fx_in.image[1])>>
    /\ UNCHANGED <<fx_in, reconVars, winVars, thickVars, scaleVars, detectVars, uploadVars,
                   applyVars, procVars>>

CallProcessDoors ==
    /\ fx_out = <<>> /\ fx_in.method = "_process_doors"
    /\ fx_out' = <<Returned(process_doors(fx_in.doors))>>
    /\ UNCHANGED <<fx_in, reconVars, winVars, thickVars, scaleVars, detectVars, uploadVars,
                   applyVars, procVars>>

CallExtractRooms ==
    /\ fx_out = <<>> /\ fx_in.method = "_extract_rooms"
    /\ fx_out' = <<Returned(extract_rooms(fx_in.regions))>>
    /\ UNCHANGED <<fx_in, reconVars, winVars, thickVars, scaleVars, detectVars, uploadVars,
                   applyVars, procVars>>

NextFeatures ==
    \/ CallProcessWalls
    \/ CallProcessDoors
    \/ CallExtractRooms

SpecFeatures == InitFeatures /\ [][NextFeatures]_vars

\* ---------------------------------------------------------------------------
\* Window detection followed by window enrichment: ImageProcessor runs
\* detect_architectural_elements and hands its result to extract_features,
\* which calls _process_windows on the 'windows' entry.
\* ---------------------------------------------------------------------------
\* Bounding rectangles (w, h) of 4-vertex contours, on and next to every limit
\* of the detector's filter and of the window subtypes.
WindowRectSamples ==
    { <<60, 30>>, <<61, 30>>, <<119, 30>>, <<120, 30>>, <<30, 60>>, <<31, 60>>,
      <<150, 100>>, <<20, 30>>, <<21, 21>>, <<199, 199>>, <<200, 101>>, <<101, 200>> }
WindowContourSamples ==
    {[vertices |-> 4, x |-> 0, y |-> 0, w |-> r[1], h |-> r[2]] : r \in WindowRectSamples}
    \cup {[vertices |-> 3, x |-> 0, y |-> 0, w |-> 60, h |-> 30]}

InitWindowPipeline ==
    /\ \E element_type \in {"windows", "all", "walls"} :
       \E contours \in SeqsUpTo(WindowContourSamples, MaxPrimitives) :
          det_in = [element_type |-> element_type, wall_lines |-> <<>>,
                    contours |-> contours, circles |-> <<>>, door_lines |-> <<>>]
    /\ det_out = <<>>
    /\ IdleRecon /\ IdleWin /\ IdleThick /\ IdleScale /\ IdleUpload
    /\ IdleFeat /\ IdleApply /\ IdleProc

\* extract_features, lines 45-46: 'windows' in detected_elements.
ProcessDetectedWindows ==
    /\ det_out # <<>> /\ det_out[1].outcome = "returned"
    /\ "windows" \in DOMAIN det_out[1].value
    /\ win_out = <<>>
    /\ win_in' = det_out[1].value["windows"]
    /\ win_out' = <<process_windows(win_in')>>
    /\ UNCHANGED <<detectVars, reconVars, thickVars, scaleVars, uploadVars,
                   featVars, applyVars, procVars>>

NextWindowPipeline ==
    \/ CallDetectArchitecturalElements
    \/ ProcessDetectedWindows

SpecWindowPipeline == InitWindowPipeline /\ [][NextWindowPipeline]_vars

\* ---------------------------------------------------------------------------
\* ScaleConverter.apply_scale_to_features
\* (src/deployment/api/image_processing/scale_converter.py)
\* ---------------------------------------------------------------------------
\* Pixel values of features are fractions here, as the scale factors are.
Px(n) == Frac(n, 1)

\* Line 261: the keys converted as lengths.
LengthKeys == {"length", "width", "height", "thickness", "radius"}

\* Lines 275-282: square units per square meter, as written in the code.
area_from_square_meters(area_meters, output_unit) ==
    CASE output_unit = "meters" -> area_meters
      [] output_unit = "feet"   -> RMul(area_meters, Frac(107639, 10000))
      [] output_unit = "inches" -> RMul(area_meters, Frac(1550, 1))
      [] output_unit = "cm"     -> RMul(area_meters, Frac(10000, 1))

\* pixels_to_real_world on a coordinate pair (lines 85-95).
point_to_real_world(sf, image_id, point, output_unit) ==
    <<pixels_to_real_world(sf, image_id, point[1], output_unit).value[1],
      pixels_to_real_world(sf, image_id, point[2], output_unit).value[1]>>

\* Lines 251-285: the copy of the feature with 'points', the length keys and
\* 'area' replaced and 'unit' added; every other key keeps its value.
scaled_feature_of(sf, image_id, feature, output_unit) ==
    [key \in DOMAIN feature \cup {"unit"} |->
        IF key = "unit" THEN output_unit
        ELSE IF key = "points"
        THEN [i \in DOMAIN feature.points |->
                 point_to_real_world(sf, image_id, feature.points[i], output_unit)]
        ELSE IF key \in LengthKeys
        THEN pixels_to_real_world(sf, image_id, feature[key], output_unit).value[1]
        ELSE IF key = "area"
        THEN area_from_square_meters(
                 RMul(feature.area, RMul(sf[image_id].scale_factor, sf[image_id].scale_factor)),
                 output_unit)
        ELSE feature[key]]

\* The exception that scaling one feature ends with: pixels_to_real_world
\* raises ValueError for an image without a scale (line 75), and line 271
\* raises KeyError when only the area needs the scale.
feature_error(sf, image_id, feature) ==
    IF image_id \in DOMAIN sf THEN NoError
    ELSE IF \/ ("points" \in DOMAIN feature /\ feature.points # <<>>)
            \/ DOMAIN feature \cap LengthKeys # {}
         THEN "ValueError"
    ELSE IF "area" \in DOMAIN feature THEN "KeyError"
    ELSE NoError

\* The input feature after its scaled version has been written, with the
\* writes going to the input dict itself.
feature_after_scaling_m(feature, scaled_feature) == scaled_feature

\* The input feature after its scaled version has been written: line 251
\* makes scaled_feature a copy and line 255 builds a new 'points' list, so no
\* write reaches the input.
feature_after_scaling(feature, scaled_feature) == feature

\* features.items() yields the keys in insertion order, which for the dict
\* built by extract_features is this one.
FeatureOrder == <<"walls", "windows", "doors", "rooms">>

RECURSIVE items_of(_, _)
items_of(features, types) ==
    IF types = <<>> THEN <<>>
    ELSE (IF Head(types) \in DOMAIN features
          THEN [k \in DOMAIN features[Head(types)] |-> <<Head(types), k>>]
          ELSE <<>>)
         \o items_of(features, Tail(types))

\* The whole method: its outcome, and the caller's features object after it.
apply_scale_to_features(sf, image_id, features, output_unit) ==
    LET order   == items_of(features, FeatureOrder)
        err(n)  == feature_error(sf, image_id, features[order[n][1]][order[n][2]])
        failing == {n \in DOMAIN order : err(n) # NoError}
        stop    == IF failing = {} THEN Len(order) + 1 ELSE Min(failing)
        done(t, k) == \E n \in 1..(stop - 1) : order[n] = <<t, k>>
        scaled(t, k) == scaled_feature_of(sf, image_id, features[t][k], output_unit)
    IN  [outcome  |-> IF failing = {} THEN "returned" ELSE err(stop),
         value    |-> IF failing = {}
                      THEN <<[t \in DOMAIN features |->
                                [k \in DOMAIN features[t] |-> scaled(t, k)]]>>
                      ELSE <<>>,
         features |-> [t \in DOMAIN features |->
                         [k \in DOMAIN features[t] |->
                             IF done(t, k)
                             THEN feature_after_scaling(features[t][k], scaled(t, k))
                             ELSE features[t][k]]]]

\* ---- one call ----
\* Features as extract_features returns them, in pixels.
PxPoint(x, y) == <<Px(x), Px(y)>>
WallFeature ==
    [type |-> "wall", points |-> <<PxPoint(0, 0), PxPoint(40, 0)>>, length |-> Px(40),
     thickness |-> Px(2), orientation |-> "horizontal"]
WindowFeature ==
    [type |-> "window",
     points |-> <<PxPoint(0, 0), PxPoint(60, 0), PxPoint(60, 30), PxPoint(0, 30)>>,
     width |-> Px(60), height |-> Px(30), area |-> Px(1800), window_type |-> "standard"]
SwingDoorFeature ==
    [type |-> "door", door_type |-> "swing", center |-> PxPoint(40, 50), radius |-> Px(30),
     swing_angle |-> SwingAngle]
LineDoorFeature ==
    [type |-> "door", door_type |-> "standard",
     points |-> <<PxPoint(0, 0), PxPoint(40, 0)>>, length |-> Px(40)]
RoomFeature ==
    [type |-> "room",
     points |-> <<PxPoint(0, 0), PxPoint(25, 0), PxPoint(25, 40), PxPoint(0, 40)>>,
     area |-> Px(1000), centroid |-> PxPoint(12, 20), label |-> 2]
\* A room without an outline: only its area needs the scale.
BareRoomFeature == [type |-> "room", points |-> <<>>, area |-> Px(1000)]

FeaturesSamples ==
    { <<>>,
      [walls |-> <<>>],
      [walls |-> <<WallFeature>>],
      [windows |-> <<WindowFeature>>],
      [doors |-> <<SwingDoorFeature>>],
      [doors |-> <<LineDoorFeature, SwingDoorFeature>>],
      [rooms |-> <<RoomFeature>>],
      [rooms |-> <<BareRoomFeature, RoomFeature>>],
      [walls |-> <<WallFeature>>, windows |-> <<WindowFeature>>,
       doors |-> <<SwingDoorFeature>>, rooms |-> <<RoomFeature>>] }

\* Calibrations of the image: pixel length and real length in meters.
Calibrations == { <<Px(100), Px(5)>>, <<Px(2), Px(1)>>, <<Px(1), Px(1)>> }

InitApply ==
    /\ converter = "deployment" /\ scales = <<>> /\ conv = <<>>
    /\ \/ scale_factors = <<>> /\ calibrated = <<>>
       \/ \E c \in Calibrations :
             /\ scale_factors = Put(<<>>, "img1", deployment_scale_entry(c[1], c[2], "meters"))
             /\ calibrated = Put(<<>>, "img1",
                                 [pixel_length |-> c[1], real_length |-> c[2],
                                  unit |-> "meters"])
    /\ \E features \in FeaturesSamples, output_unit \in Units :
          asf_in = [image_id |-> "img1", features |-> features,
                    output_unit |-> output_unit, scale_factors |-> scale_factors]
    /\ asf_features = asf_in.features
    /\ asf_out = <<>>
    /\ IdleRecon /\ IdleWin /\ IdleThick /\ IdleDetect /\ IdleUpload /\ IdleFeat /\ IdleProc

CallApplyScaleToFeatures ==
    /\ asf_out = <<>>
    /\ LET r == apply_scale_to_features(scale_factors, asf_in.image_id, asf_features,
                                        asf_in.output_unit)
       IN  /\ asf_out' = <<[outcome |-> r.outcome, value |-> r.value]>>
           /\ asf_features' = r.features
    /\ UNCHANGED <<asf_in, scaleVars, reconVars, winVars, thickVars, detectVars, uploadVars,
                   featVars, procVars>>

NextApply == CallApplyScaleToFeatures

SpecApply == InitApply /\ [][NextApply]_vars

\* ---------------------------------------------------------------------------
\* ImageProcessor.process_building_plan requests and /api/set-scale requests
\* running concurrently on the one ImageProcessor of the API
\* (src/backend/image_processing/image_processor.py, src/deployment/api/app.py).
\* The processor's scale_converter is the ScaleConverter that has the
\* members the method uses (scale_factors, apply_scale_to_features,
\* get_scale_info): the class of src/deployment/api/image_processing.  A
\* request is interleaved with the others between its steps 2-4, 5 and the
\* building of its result; vector_data and the JSON file are left out.
\* ---------------------------------------------------------------------------
MaxCalls == 2   \* at most this many process_building_plan requests

\* What detection and feature extraction find in every plan.
PlanFeatures == [walls |-> <<WallFeature>>, doors |-> <<SwingDoorFeature>>]

\* The scale_info arguments: None, or a pixel length and a real length.
ScaleInfoArgs == {<<>>} \cup {<<[pixel_length |-> Px(100), real_length |-> Px(5)]>>}
\* The calibrations /api/set-scale is called with.
RequestCalibrations == { <<Px(100), Px(5)>>, <<Px(2), Px(1)>> }

NewCall(image_id, scale_info) ==
    [pc |-> "called", image_id |-> image_id, scale_info |-> scale_info,
     features |-> <<>>, scaled_features |-> <<>>, result |-> <<>>]

InitProcessor ==
    /\ converter = "deployment" /\ scale_factors = <<>> /\ scales = <<>>
    /\ calibrated = <<>> /\ conv = <<>>
    /\ \E n \in 1..MaxCalls :
          ip_calls \in [1..n -> {NewCall(image_id, scale_info) :
                                    image_id \in ImageIds, scale_info \in ScaleInfoArgs}]
    /\ IdleRecon /\ IdleWin /\ IdleThick /\ IdleDetect /\ IdleUpload /\ IdleFeat /\ IdleApply

\* Lines 90-107: step 2 sets the scale when scale_info is given (unit defaults
\* to meters); steps 3 and 4 produce the features in pixels.
BeginProcessing(c) ==
    /\ ip_calls[c].pc = "called"
    /\ LET call == ip_calls[c]
       IN  /\ IF call.scale_info # <<>>
              THEN LET si == call.scale_info[1]
                   IN  /\ scale_factors' =
                              Put(scale_factors, call.image_id,
                                  deployment_scale_entry(si.pixel_length, si.real_length,
                                                         "meters"))
                       /\ calibrated' =
                              Put(calibrated, call.image_id,
                                  [pixel_length |-> si.pixel_length,
                                   real_length |-> si.real_length, unit |-> "meters"])
              ELSE UNCHANGED <<scale_factors, calibrated>>
           /\ ip_calls' = [ip_calls EXCEPT ![c].pc = "step5", ![c].features = PlanFeatures]
    /\ UNCHANGED <<scales, converter, conv>>
    /\ UNCHANGED <<reconVars, winVars, thickVars, detectVars, uploadVars, featVars, applyVars>>

\* Lines 110-115: the features are scaled if the image has a scale now.
ApplyScaleIfSet(c) ==
    /\ ip_calls[c].pc = "step5"
    /\ LET call == ip_calls[c]
           scaled_features ==
               IF call.image_id \in DOMAIN scale_factors
               THEN apply_scale_to_features(scale_factors, call.image_id, call.features,
                                            "meters").value[1]
               ELSE call.features
       IN  ip_calls' = [ip_calls EXCEPT ![c].pc = "prepare_result",
                                        ![c].scaled_features = scaled_features]
    /\ UNCHANGED <<scaleVars, reconVars, winVars, thickVars, detectVars, uploadVars,
                   featVars, applyVars>>

\* Lines 118-127 and 148: the result gets 'scale_info' if the image has a
\* scale now, and is returned.
PrepareResult(c) ==
    /\ ip_calls[c].pc = "prepare_result"
    /\ LET call   == ip_calls[c]
           result == [image_id |-> call.image_id, features |-> call.scaled_features]
       IN  ip_calls' =
               [ip_calls EXCEPT
                   ![c].pc = "returned",
                   ![c].result =
                       <<IF call.image_id \in DOMAIN scale_factors
                         THEN Put(result, "scale_info", scale_factors[call.image_id])
                         ELSE result>>]
    /\ UNCHANGED <<scaleVars, reconVars, winVars, thickVars, detectVars, uploadVars,
                   featVars, applyVars>>

\* POST /api/set-scale (app.py lines 95-118) while requests are being processed.
SetScaleRequest ==
    /\ \E c \in DOMAIN ip_calls : ip_calls[c].pc # "returned"
    /\ \E image_id \in ImageIds, cal \in RequestCalibrations :
          /\ scale_factors' = Put(scale_factors, image_id,
                                  deployment_scale_entry(cal[1], cal[2], "meters"))
          /\ calibrated' = Put(calibrated, image_id,
                               [pixel_length |-> cal[1], real_length |-> cal[2],
                                unit |-> "meters"])
    /\ UNCHANGED <<scales, converter, conv, procVars>>
    /\ UNCHANGED <<reconVars, winVars, thickVars, detectVars, uploadVars, featVars, applyVars>>

NextProcessor ==
    \/ \E c \in DOMAIN ip_calls : BeginProcessing(c)
    \/ \E c \in DOMAIN ip_calls : ApplyScaleIfSet(c)
    \/ \E c \in DOMAIN ip_calls : PrepareResult(c)
    \/ SetScaleRequest

SpecProcessor == InitProcessor /\ [][NextProcessor]_vars

\* ---------------------------------------------------------------------------
\* Specifications
\* ---------------------------------------------------------------------------
\* One reconstruct_building request, from the call to its return or raise.
Init == InitRecon /\ IdleWin /\ IdleThick /\ IdleScale /\ IdleDetect /\ IdleUpload /\ IdleFeat /\ IdleApply /\ IdleProc
Spec == Init /\ [][Next]_vars

\* _extract_floor_heights called on its own: at most MaxElevations elevations
\* sharing at most MaxLevels floor levels at positions 0..MaxY, within a
\* request of at most MaxFloors floor plans (which the method is not given).
\* owner[k] is the elevation that floor level k of the pool belongs to.
LevelsOwnedBy(pool, owner, e) ==
    LET F[k \in 0..Len(pool)] ==
            IF k = 0 THEN <<>>
            ELSE IF owner[k] = e THEN Append(F[k - 1], pool[k]) ELSE F[k - 1]
    IN  F[Len(pool)]

InitHeights ==
    /\ \E n \in 0..MaxElevations :
       \E pool \in SeqsUpTo(0..MaxY, MaxLevels) :
       \E owner \in [DOMAIN pool -> 1..n] :
          /\ \A j, k \in DOMAIN pool : j < k => owner[j] <= owner[k]
          /\ elevations = [e \in 1..n |-> Elevation(LevelsOwnedBy(pool, owner, e))]
    /\ floor_plans \in SeqsUpTo({PlanEmpty}, MaxFloors)
    /\ output_dir = NoDir /\ hull_raises = FALSE
    /\ pc = "call_extract_floor_heights"
    /\ stages_run = <<>> /\ raised = NoError /\ building_outline = <<>>
    /\ floor_heights = <<>> /\ walls = <<>> /\ openings = <<>> /\ roof = <<>>
    /\ mesh = <<>> /\ returned = <<>> /\ files = {}
    /\ IdleWin /\ IdleThick /\ IdleScale /\ IdleDetect /\ IdleUpload /\ IdleFeat /\ IdleApply /\ IdleProc

CallExtractFloorHeights ==
    /\ pc = "call_extract_floor_heights"
    /\ floor_heights' = extract_floor_heights(elevations)
    /\ pc' = "extract_floor_heights_returned"
    /\ UNCHANGED notRecon
    /\ UNCHANGED <<floor_plans, elevations, output_dir, hull_raises, stages_run,
                   raised, building_outline, walls, openings, roof, mesh, returned,
                   files>>

NextHeights == CallExtractFloorHeights

SpecHeights == InitHeights /\ [][NextHeights]_vars

\* _extract_building_outline called on its own.  The first floor plan is one
\* of the request samples, a closed triangle that also has rooms, or a plan
\* with 20 or 21 walls around the 10 by 10 square plus one extra wall that
\* leaves the square; the other floor plans are request samples.
SquareCorners == << <<0, 0>>, <<10, 0>>, <<10, 10>>, <<0, 10>> >>

SquareSide(k) ==
    [points |-> << SquareCorners[((k - 1) % 4) + 1], SquareCorners[(k % 4) + 1] >>,
     length |-> 10]

ExtraWalls ==
    { [points |-> << <<0, 0>>, <<12, 16>> >>, length |-> 20],                 \* longest
      [points |-> << <<10, 10>>, <<13, 14>> >>, length |-> 5],                \* shortest
      [points |-> << <<10, 10>>, <<16, 18>>, <<30, 30>> >>, length |-> 10] }  \* a tie

PlanMany(n, extra, extra_first) ==
    [features |->
        [walls |-> IF extra_first
                   THEN <<extra>> \o [k \in 1..n |-> SquareSide(k)]
                   ELSE [k \in 1..n |-> SquareSide(k)] \o <<extra>>]]

PlanTriangleRooms ==
    [features |-> [walls |-> PlanTriangle.features.walls,
                   rooms |-> PlanRooms.features.rooms]]

FirstFloorSamples ==
    FloorPlanSamples \cup {PlanTriangleRooms}
    \cup {PlanMany(n, extra, b) : n \in {TopWalls - 1, TopWalls},
                                  extra \in ExtraWalls, b \in BOOLEAN}

InitOutline ==
    /\ \E first \in FirstFloorSamples :
       \E others \in SeqsUpTo(FloorPlanSamples, MaxFloors - 1) :
          floor_plans = <<first>> \o others
    /\ hull_raises \in BOOLEAN
    /\ elevations = <<>> /\ output_dir = NoDir
    /\ pc = "call_extract_building_outline"
    /\ stages_run = <<>> /\ raised = NoError /\ building_outline = <<>>
    /\ floor_heights = <<>> /\ walls = <<>> /\ openings = <<>> /\ roof = <<>>
    /\ mesh = <<>> /\ returned = <<>> /\ files = {}
    /\ IdleWin /\ IdleThick /\ IdleScale /\ IdleDetect /\ IdleUpload /\ IdleFeat /\ IdleApply /\ IdleProc

CallExtractBuildingOutline ==
    /\ pc = "call_extract_building_outline"
    /\ building_outline' = extract_building_outline(floor_plans)
    /\ pc' = "extract_building_outline_returned"
    /\ UNCHANGED notRecon
    /\ UNCHANGED <<floor_plans, elevations, output_dir, hull_raises, stages_run,
                   raised, floor_heights, walls, openings, roof, mesh, returned,
                   files>>

NextOutline == CallExtractBuildingOutline

SpecOutline == InitOutline /\ [][NextOutline]_vars

\* ---------------------------------------------------------------------------
\* Claims
\* ---------------------------------------------------------------------------

\* C1: when floor_plans is empty, or floor_plans is non-empty and elevations is
\* empty, reconstruct_building ends by raising ValueError right after the
\* validation: no reconstruction stage has run and nothing is returned.
C1_InsufficientInputRaises ==
    (floor_plans = <<>> \/ elevations = <<>>) =>
        /\ stages_run \in {<<>>, <<"validate">>}
        /\ returned = <<>> /\ mesh = <<>>
        /\ pc \in {"validate", "raised"}
        /\ (pc = "raised" => raised = "ValueError")

C1_Witness ==
    pc = "raised" /\ raised = "ValueError" /\ floor_plans # <<>> /\ elevations = <<>>

\* C2 (as stated): with at least one floor plan and at least one elevation,
\* no stage of reconstruct_building raises.
C2_StagesNeverRaise ==
    (floor_plans # <<>> /\ elevations # <<>>) => raised = NoError

\* C3 (as stated): the 'floors' list of every returned BuildingModel is in
\* ascending order and starts with 0.
C3_FloorsAscendingFromZero ==
    pc = "done" =>
        LET floors == returned[1].building_model.floors
        IN  /\ floors[1] = 0
            /\ \A j, k \in DOMAIN floors : j < k => floors[j] <= floors[k]

\* C4: for a non-empty list of elevations, the list _extract_floor_heights
\* returns is non-empty, has no negative element and has minimum 0.
C4_HeightsNonNegativeMinZero ==
    (pc = "extract_floor_heights_returned" /\ elevations # <<>>) =>
        /\ floor_heights # <<>>
        /\ \A k \in DOMAIN floor_heights : floor_heights[k] >= 0
        /\ \E k \in DOMAIN floor_heights : floor_heights[k] = 0

\* Three levels survive the de-duplication (elevation-derived branch).
C4_Witness ==
    /\ pc = "extract_floor_heights_returned"
    /\ collect_levels(elevations) # <<>>
    /\ Len(floor_heights) = 3
    /\ Len(elevations) = 2

\* The height the claim gives the walls of Python floor index i.
taller_than(fh, i) == {fh[k] : k \in {j \in DOMAIN fh : fh[j] > fh[i + 1]}}
claimed_wall_height(fh, i) ==
    IF taller_than(fh, i) # {} THEN Min(taller_than(fh, i)) - fh[i + 1]
    ELSE DefaultFloorHeight

\* C5 (as stated): every 3D wall emitted for floor index i < len(floor_heights)
\* has base_height = floor_heights[i] and height = next taller floor height
\* minus floor_heights[i], or 3.0 when no floor height is taller.
C5_WallHeightIsNextTaller ==
    \A k \in DOMAIN walls :
        walls[k].floor < Len(floor_heights) =>
            /\ walls[k].base_height = floor_heights[walls[k].floor + 1]
            /\ walls[k].height = claimed_wall_height(floor_heights, walls[k].floor)

\* The walls ws form a closed loop of at least 3 two-point walls: each wall
\* ends where the next one starts, the last where the first starts.
ClosedLoop(ws) ==
    /\ Len(ws) >= 3
    /\ \A k \in DOMAIN ws : Len(Get(ws[k], "points", <<>>)) = 2
    /\ \A k \in DOMAIN ws :
          ws[k].points[2] = ws[IF k = Len(ws) THEN 1 ELSE k + 1].points[1]

\* C6 (as stated): for a first floor whose walls form a closed loop of at
\* least 3 walls and that has no rooms, the outline has exactly one exterior
\* wall entry, marked closed.
C6_ClosedLoopGivesOneOutline ==
    ( /\ "outline" \in Range(stages_run)
      /\ ClosedLoop(Get(floor_plans[1].features, "walls", <<>>))
      /\ Get(floor_plans[1].features, "rooms", <<>>) = <<>> ) =>
        /\ Len(building_outline.exterior_walls) = 1
        /\ building_outline.exterior_walls[1].closed = TRUE

\* The subtype the claim assigns to a window of integer width w, height h > 0.
claimed_window_type(w, h) ==
    IF w > 2 * h THEN "horizontal"
    ELSE IF 2 * w < h THEN "vertical"
    ELSE IF w * h > 10000 THEN "picture"
    ELSE "standard"

\* C7: the subtype of every processed window of positive width and height is
\* the claimed function of (width, height) alone, with strict comparisons:
\* ratio exactly 2 and area exactly 10000 give 'standard', and the ratio test
\* wins over the area test.
C7_WindowTypeByRatioThenArea ==
    win_out # <<>> =>
        /\ Len(win_out[1]) = Len(win_in)
        /\ \A k \in DOMAIN win_in :
              LET w == win_in[k].width
                  h == win_in[k].height
                  t == win_out[1][k].window_type
              IN  (w > 0 /\ h > 0) =>
                    /\ t = claimed_window_type(w, h)
                    /\ (w = 100 /\ h = 50 => t = "standard")
                    /\ (w = 100 /\ h = 100 => t = "standard")
                    /\ (w = 201 /\ h = 50 => t = "horizontal")

\* A 100 by 50 window (ratio exactly 2) next to a 101 by 100 one (picture).
C7_Witness ==
    /\ win_out # <<>>
    /\ Len(win_in) = 2
    /\ win_in[1].width = 100 /\ win_in[1].height = 50
    /\ win_out[1][1].window_type = "standard"
    /\ win_in[2].width = 101 /\ win_in[2].height = 100
    /\ win_out[1][2].window_type = "picture"

\* C8: the estimate is finite and at least 1.0, and it is exactly 1.0 when no
\* sample point yields a profile with two transitions.
C8_ThicknessAtLeastOne ==
    thick_out # <<>> =>
        LET e == thick_out[1]
        IN  /\ e.den > 0
            /\ e.num >= e.den
            /\ ( ( \/ thick_in.p1 = thick_in.p2
                    \/ sample_thicknesses(thick_in.image, thick_in.p1, thick_in.p2) = <<>> )
                    => e.num = 1 /\ e.den = 1 )

\* A wall crossing a dark bar two pixels wide: every profile has two
\* transitions and the estimate is 2.
C8_Witness ==
    /\ thick_out # <<>>
    /\ thick_in.p1 # thick_in.p2
    /\ thick_out[1].den > 1
    /\ thick_out[1].num = 2 * thick_out[1].den

\* C9: on an image calibrated by set_scale(id, p, r, unit), a conversion in
\* that unit returns x * r / p (pixels to real) or y * p / r (real to pixels),
\* and converting the result of one direction back in the same unit on the
\* same image returns the length that was started from.
C9_ConversionsAreInverse ==
    (IsConversion(conv) /\ conv.image_id \in DOMAIN calibrated) =>
        LET cal == calibrated[conv.image_id]
        IN  /\ conv.outcome = "returned"
            /\ (conv.unit = cal.unit /\ conv.op = "pixels_to_real") =>
                    conv.value[1] = RDiv(RMul(conv.arg, cal.real_length), cal.pixel_length)
            /\ (conv.unit = cal.unit /\ conv.op = "real_to_pixels") =>
                    conv.value[1] = RDiv(RMul(conv.arg, cal.pixel_length), cal.real_length)
            /\ ( /\ conv.chained # <<>>
                 /\ conv.chained[1].image_id = conv.image_id
                 /\ conv.chained[1].unit = conv.unit ) =>
                    conv.value[1] = conv.chained[1].arg

\* 15 feet converted to pixels and back to feet on an image calibrated in
\* meters by the deployment converter.
C9_Witness ==
    /\ IsConversion(conv) /\ conv.image_id \in DOMAIN calibrated
    /\ converter = "deployment"
    /\ conv.op = "pixels_to_real" /\ conv.unit = "feet"
    /\ calibrated[conv.image_id].unit = "meters"
    /\ conv.chained # <<>>
    /\ conv.chained[1].image_id = conv.image_id /\ conv.chained[1].unit = conv.unit
    /\ conv.chained[1].arg = Frac(15, 1)
    /\ conv.value = <<Frac(15, 1)>>

\* C10 (as stated): a conversion for an image id on which set_scale was never
\* called fails with an error and returns no value, in every ScaleConverter.
C10_UncalibratedConversionFails ==
    (IsConversion(conv) /\ conv.image_id \notin DOMAIN calibrated) =>
        conv.outcome # "returned" /\ conv.value = <<>>

\* C11: detect_architectural_elements with element_type 'all' returns (never
\* raises) a dict whose keys are exactly walls, windows and doors; the walls
\* list is empty when the line search returns None, the windows list when no
\* contour is found, the doors list when the circle search and the line search
\* both return None.
C11_AllKeysEmptyListsNoError ==
    (det_out # <<>> /\ det_in.element_type = "all") =>
        /\ det_out[1].outcome = "returned"
        /\ DOMAIN det_out[1].value = {"walls", "windows", "doors"}
        /\ (det_in.wall_lines = <<>> => det_out[1].value["walls"] = <<>>)
        /\ (det_in.contours = <<>> => det_out[1].value["windows"] = <<>>)
        /\ ((det_in.circles = <<>> /\ det_in.door_lines = <<>>)
                => det_out[1].value["doors"] = <<>>)

\* No line, no contour and no circle at all: three empty lists.
C11_Witness ==
    /\ det_out # <<>> /\ det_in.element_type = "all"
    /\ det_in.wall_lines = <<>> /\ det_in.contours = <<>>
    /\ det_in.circles = <<>> /\ det_in.door_lines = <<>>
    /\ det_out[1].outcome = "returned"
    /\ det_out[1].value = [k \in {"walls", "windows", "doors"} |-> <<>>]

Rejected(message) ==
    /\ response[1] = JsonResponse(400, ErrorBody(message))
    /\ processor_calls = <<>>
    /\ results_folder = {}

\* C12 (as stated): the upload endpoint answers 400 'No file part' to a request
\* without a file part, 400 'No selected file' to a file part with an empty
\* filename, and 400 'Invalid file type' to any other request whose type is
\* not 'floorPlan' or 'elevation'; in each case the image processor is not
\* called and no result file is written.
C12_UploadRejectsInOrder ==
    response # <<>> =>
        /\ (~ request.has_file => Rejected("No file part"))
        /\ ((request.has_file /\ request.filename = "") => Rejected("No selected file"))
        /\ ( ( /\ request.has_file /\ request.filename # ""
               /\ Get(request.form, "type", "unknown") \notin {"floorPlan", "elevation"} )
                => Rejected("Invalid file type") )

\* C13 (as stated): every 3D wall emitted by _create_walls has height > 0, for
\* every floor index and for elevation-derived and fallback floor heights.
C13_WallHeightsPositive ==
    \A k \in DOMAIN walls : walls[k].height > 0

\* The order the claim gives the stages of one run.
StageOrder ==
    <<"validate", "outline", "floor_heights", "walls", "openings", "roof", "mesh">>

\* C14: every step of a reconstruct_building run executes at most the next
\* stage of the fixed order validation, outline, floor heights, walls,
\* openings, roof, mesh (so no stage runs twice or is retried); the mesh stage
\* runs only after the five stages before it have produced their values; the
\* mesh file is written only when an output directory was given and only after
\* the mesh stage; and once a stage has raised, nothing further is executed.
C14_StagesInFixedOrder ==
    [][ /\ raised = NoError
        /\ \/ stages_run' = stages_run
           \/ /\ Len(stages_run) < Len(StageOrder)
              /\ stages_run' = Append(stages_run, StageOrder[Len(stages_run) + 1])
        /\ (stages_run' # stages_run /\ stages_run'[Len(stages_run')] = "mesh") =>
              /\ stages_run = SubSeq(StageOrder, 1, 6)
              /\ building_outline # <<>> /\ floor_heights # <<>>
              /\ walls = create_walls(floor_plans, floor_heights).value
              /\ openings = create_openings(floor_plans, elevations)
              /\ roof # <<>>
        /\ (MeshFile(output_dir) \in files') =>
              /\ output_dir # NoDir
              /\ stages_run = StageOrder
              /\ mesh # <<>>
        /\ (raised' # NoError) =>
              /\ pc' = "raised" /\ returned' = <<>> /\ mesh' = <<>>
              /\ MeshFile(output_dir) \notin files'
      ]_vars

\* A run with an output directory that went through every stage and wrote the
\* mesh file.
C14_Witness ==
    /\ pc = "done" /\ output_dir # NoDir
    /\ stages_run = StageOrder
    /\ MeshFile(output_dir) \in files
    /\ returned # <<>>

\* C15: when some elevation has a floor level, any two adjacent entries of the
\* list _extract_floor_heights returns differ by more than 0.5, no two entries
\* at all are within 0.5 of each other, and the list has at least 1 and at
\* most as many entries as there are pooled floor levels.
C15_SurvivorsDifferByMoreThanTolerance ==
    (pc = "extract_floor_heights_returned" /\ collect_levels(elevations) # <<>>) =>
        /\ \A k \in 1..(Len(floor_heights) - 1) :
              Abs(floor_heights[k] - floor_heights[k + 1]) > Tolerance
        /\ \A j, k \in DOMAIN floor_heights :
              j # k => Abs(floor_heights[j] - floor_heights[k]) > Tolerance
        /\ 1 <= Len(floor_heights)
        /\ Len(floor_heights) <= Len(collect_levels(elevations))

\* Three pooled levels, two of them exactly 0.5 apart: two survive.
C15_Witness ==
    /\ pc = "extract_floor_heights_returned"
    /\ Len(collect_levels(elevations)) = 3
    /\ \E j, k \in 1..3 :
          collect_levels(elevations)[j] - collect_levels(elevations)[k] = Tolerance
    /\ Len(floor_heights) = 2

\* The list the claim gives for n elevation inputs without floor levels.
claimed_default_heights(n) ==
    [i \in 1..(IF n > 1 THEN n ELSE 1) |-> 3 * 2 * (i - 1)]

\* C16: when no elevation input has a floor level, _extract_floor_heights
\* returns [0, 3.0, ..., 3.0 * (n - 1)] with n = max(1, number of elevation
\* inputs), whatever the number of floor plans of the request.
C16_FallbackIsThreePerElevation ==
    (pc = "extract_floor_heights_returned" /\ collect_levels(elevations) = <<>>) =>
        floor_heights = claimed_default_heights(Len(elevations))

\* Two elevations without floor levels next to three floor plans: two floors.
C16_Witness ==
    /\ pc = "extract_floor_heights_returned"
    /\ collect_levels(elevations) = <<>>
    /\ Len(elevations) = 2 /\ Len(floor_plans) = 3
    /\ floor_heights = <<0, 6>>

\* C17 (as stated): the height at which the mesh places an opening of floor
\* index i (3.0 * i + 1.0 for a window, 3.0 * i for a door) lies within
\* [base_height, base_height + height] of every 3D wall emitted for floor
\* index i in the same run.
C17_OpeningsWithinWallExtent ==
    mesh # <<>> =>
        \A o \in DOMAIN mesh.openings : \A k \in DOMAIN walls :
            walls[k].floor = mesh.openings[o].floor =>
                /\ walls[k].base_height <= mesh.openings[o].z
                /\ mesh.openings[o].z <= walls[k].base_height + walls[k].height

\* C18 (as stated): in every returned BuildingModel the roof's outline is the
\* exterior-wall list of the model's building outline.
C18_RoofOutlineIsBuildingOutline ==
    returned # <<>> =>
        returned[1].building_model.roof.outline
            = returned[1].building_model.outline.exterior_walls

\* C19 (as stated): a non-empty roof outline gives a roof mesh placed at the
\* greatest height of the model's 'floors' list, for elevation-derived and for
\* fallback floor heights; an empty roof outline gives no roof mesh.
C19_RoofAtTopFloor ==
    mesh # <<>> =>
        /\ (roof.outline # <<>> =>
                /\ mesh.roof # <<>>
                /\ mesh.roof[1].z = Max(Range(floor_heights)))
        /\ (roof.outline = <<>> => mesh.roof = <<>>)

\* Every 2D wall of the request, in floor-plan order then wall order.
RECURSIVE walls_2d(_)
walls_2d(fps) ==
    IF fps = <<>> THEN <<>>
    ELSE Get(Head(fps).features, "walls", <<>>) \o walls_2d(Tail(fps))

has_two_points(wall) == Len(Get(wall, "points", <<>>)) >= 2

\* The list the claim describes: the 2D walls with at least 2 points, each
\* with its points and its thickness (0.2 when it has none).
claimed_walls(fps) ==
    LET kept == SelectSeq(walls_2d(fps), has_two_points)
    IN  [k \in DOMAIN kept |->
            [points    |-> kept[k].points,
             thickness |-> IF "thickness" \in DOMAIN kept[k]
                           THEN kept[k].thickness ELSE 2]]

\* C20: the list _create_walls returns has exactly one entry per 2D wall with
\* at least 2 points, in floor-plan order then wall order, with the wall's
\* points and its thickness (0.2 when unspecified); walls with fewer than 2
\* points give no entry and no error.
C20_OneWallPerTwoPointWall ==
    ("walls" \in Range(stages_run) /\ raised = NoError) =>
        /\ Len(walls) = Len(claimed_walls(floor_plans))
        /\ \A k \in DOMAIN walls :
              /\ walls[k].type = "wall"
              /\ walls[k].points = claimed_walls(floor_plans)[k].points
              /\ walls[k].thickness = claimed_walls(floor_plans)[k].thickness

\* A floor plan with a one-point wall and a wall with a detected thickness,
\* followed by the rectangle plan whose four walls have no thickness.
C20_Witness ==
    /\ "walls" \in Range(stages_run) /\ raised = NoError
    /\ floor_plans = <<PlanRooms, PlanRect>>
    /\ Len(walls) = 5
    /\ walls[1].thickness = 3 /\ walls[2].thickness = DefaultThickness

has_four_points(window) == Len(Get(window, "points", <<>>)) >= 4

is_door(door) ==
    Get(door, "door_type", None) = "swing" \/ Len(Get(door, "points", <<>>)) >= 2

\* The openings the claim gives the floor plan fp at list index i, windows
\* first, with the height each is placed at (half units).
claimed_openings_of(fp, i) ==
    LET ws == SelectSeq(Get(fp.features, "windows", <<>>), has_four_points)
        ds == SelectSeq(Get(fp.features, "doors", <<>>), is_door)
    IN  [k \in DOMAIN ws |-> [type |-> "window", floor |-> i, z |-> 6 * i + 2]]
        \o [k \in DOMAIN ds |->
              IF Get(ds[k], "door_type", None) = "swing"
              THEN [type |-> "door", floor |-> i, z |-> 6 * i, door_type |-> "swing",
                    center |-> ds[k].center, radius |-> ds[k].radius]
              ELSE [type |-> "door", floor |-> i, z |-> 6 * i, door_type |-> "standard",
                    height |-> 4,
                    squared_width |->
                        (ds[k].points[2][1] - ds[k].points[1][1])
                            * (ds[k].points[2][1] - ds[k].points[1][1])
                        + (ds[k].points[2][2] - ds[k].points[1][2])
                            * (ds[k].points[2][2] - ds[k].points[1][2])]]

RECURSIVE claimed_openings(_, _)
claimed_openings(fps, i) ==
    IF i >= Len(fps) THEN <<>>
    ELSE claimed_openings_of(fps[i + 1], i) \o claimed_openings(fps, i + 1)

\* C21: the openings of a run are, floor plan by floor plan, one window per
\* window with at least 4 points (placed at 3.0 * i + 1.0), one swing door per
\* door of type 'swing' (center and radius kept) and one standard door of
\* height 2.0 and width |p1 p2| per other door with at least 2 points (both
\* placed at 3.0 * i); other windows and doors are skipped; the list is a
\* function of the floor plans alone, whatever the elevations.
C21_OpeningsPerFloorPlan ==
    mesh # <<>> =>
        LET c == claimed_openings(floor_plans, 0)
        IN  /\ Len(openings) = Len(c)
            /\ Len(mesh.openings) = Len(c)
            /\ \A k \in DOMAIN c :
                  /\ openings[k].type = c[k].type
                  /\ openings[k].floor = c[k].floor
                  /\ mesh.openings[k].z = c[k].z
                  /\ (c[k].type = "door") =>
                        /\ openings[k].door_type = c[k].door_type
                        /\ (c[k].door_type = "swing") =>
                              /\ openings[k].position = c[k].center
                              /\ openings[k].radius = c[k].radius
                        /\ (c[k].door_type = "standard") =>
                              /\ openings[k].height = c[k].height
                              /\ openings[k].width * openings[k].width = c[k].squared_width

\* The plan with a window, a three-point window, a swing door, a 'double'
\* door and a one-point door as second floor plan: three openings on floor 1.
C21_Witness ==
    /\ mesh # <<>>
    /\ floor_plans = <<PlanEmpty, PlanRooms>>
    /\ Len(openings) = 3
    /\ mesh.openings[1].z = 8 /\ mesh.openings[2].z = 6
    /\ openings[3].door_type = "standard" /\ openings[3].width = 5

\* The candidate walls of a first floor: its (at most) 20 longest walls.
candidate_walls(first_floor) ==
    Take(sorted_by_length(Get(first_floor.features, "walls", <<>>)), TopWalls)

two_point_candidates(first_floor) ==
    SelectSeq(candidate_walls(first_floor), has_two_points)

\* C22: when fewer than 3 candidate walls have at least 2 points, or the hull
\* construction fails, the outline falls back to the rooms: with at least one
\* room exterior_walls is one closed entry carrying the points of a room of
\* maximal area, without rooms it is empty; the outline has level 0 and the
\* call returns.
C22_OutlineFallsBackToLargestRoom ==
    ( /\ pc = "extract_building_outline_returned"
      /\ \/ Len(two_point_candidates(floor_plans[1])) < 3
         \/ hull_raises ) =>
        LET rooms == Get(floor_plans[1].features, "rooms", <<>>)
            ext   == building_outline.exterior_walls
        IN  /\ raised = NoError
            /\ building_outline.level = 0
            /\ (rooms = <<>> => ext = <<>>)
            /\ (rooms # <<>> =>
                  /\ Len(ext) = 1
                  /\ ext[1].type = "exterior_wall" /\ ext[1].closed = TRUE
                  /\ \E r \in DOMAIN rooms :
                        /\ \A q \in DOMAIN rooms : rooms[q].area <= rooms[r].area
                        /\ ext[1].points = rooms[r].points)

\* A closed triangle of walls whose hull construction fails, with two rooms:
\* the outline is the larger room.
C22_Witness ==
    /\ pc = "extract_building_outline_returned"
    /\ hull_raises
    /\ floor_plans[1] = PlanTriangleRooms
    /\ building_outline.exterior_walls[1].points = PlanRooms.features.rooms[2].points

\* What the claim lets the outline depend on: of the first floor plan, the
\* (at most) 20 longest walls in sorted order, each cut down to its length and
\* its first two points, and the rooms.
reduced_first_floor(first_floor) ==
    LET cand  == candidate_walls(first_floor)
        ws    == [k \in DOMAIN cand |->
                    [points |-> Take(Get(cand[k], "points", <<>>), 2),
                     length |-> Get(cand[k], "length", 0)]]
        rooms == Get(first_floor.features, "rooms", <<>>)
    IN  [features |-> [walls |-> ws, rooms |-> rooms]]

\* C23: the outline is the outline of the first floor plan alone, with its
\* walls reduced to the first two points of its at most 20 longest walls (ties
\* in input order): the other floor plans, the walls beyond the 20 longest and
\* the further points of a wall have no influence.
C23_OutlineDependsOnTopWallsOfFirstFloor ==
    pc = "extract_building_outline_returned" =>
        building_outline = extract_building_outline(<<reduced_first_floor(floor_plans[1])>>)

\* 21 walls on the first floor, the last one (a tie in length, with a third
\* point) leaving the square, and two further floor plans: the outline is the
\* square.
C23_Witness ==
    /\ pc = "extract_building_outline_returned"
    /\ ~ hull_raises
    /\ Len(floor_plans) = 3
    /\ Len(Get(floor_plans[1].features, "walls", <<>>)) = TopWalls + 1
    /\ Len(floor_plans[1].features.walls[TopWalls + 1].points) = 3
    /\ building_outline.exterior_walls # <<>>
    /\ building_outline.exterior_walls[1].points = SquareCorners

\* The orientation the claim gives a wall from p1 to p2: the angle modulo 180
\* is in [0, 45) or [135, 180) exactly when the direction is flatter than the
\* diagonals or lies on the 135 degree diagonal.
claimed_orientation(wall) ==
    LET dx == wall.points[2][1] - wall.points[1][1]
        dy == wall.points[2][2] - wall.points[1][2]
    IN  IF Abs(dy) < Abs(dx) \/ dy = -dx THEN "horizontal" ELSE "vertical"

\* C24 (as stated): _process_walls gives every wall the orientation
\* 'horizontal' when its angle modulo 180 is in [0, 45) or [135, 180) and
\* 'vertical' otherwise; 'diagonal' is never assigned.
C24_OrientationHorizontalOrVertical ==
    (fx_out # <<>> /\ fx_in.method = "_process_walls" /\ fx_out[1].outcome = "returned") =>
        \A k \in DOMAIN fx_out[1].value[1] :
            /\ fx_out[1].value[1][k].orientation = claimed_orientation(fx_in.walls[k])
            /\ fx_out[1].value[1][k].orientation # "diagonal"

\* The door elements _process_doors has a branch for.
is_arc_or_line(door) == door.type \in {"door_arc", "door_line"}

\* C25: _process_doors returns one door per door_arc or door_line element, in
\* input order, and nothing for other elements; an arc becomes a 'swing' door
\* with swing_angle 90 and the same center and radius; a line becomes 'double'
\* when its length is above 80 and 'standard' otherwise.
C25_OneDoorPerArcOrLine ==
    (fx_out # <<>> /\ fx_in.method = "_process_doors") =>
        LET kept  == SelectSeq(fx_in.doors, is_arc_or_line)
            doors == fx_out[1].value[1]
        IN  /\ fx_out[1].outcome = "returned"
            /\ Len(doors) = Len(kept)
            /\ \A k \in DOMAIN kept :
                  /\ doors[k].type = "door"
                  /\ kept[k].type = "door_arc" =>
                        /\ doors[k].door_type = "swing"
                        /\ doors[k].swing_angle = 90
                        /\ doors[k].center = kept[k].center
                        /\ doors[k].radius = kept[k].radius
                  /\ kept[k].type = "door_line" =>
                        /\ doors[k].door_type = IF kept[k].length > 80 THEN "double"
                                                ELSE "standard"
                        /\ doors[k].points = kept[k].points
                        /\ doors[k].length = kept[k].length

\* An arc followed by a line of length exactly 80 has been processed.
C25_Witness ==
    /\ fx_out # <<>> /\ fx_in.method = "_process_doors"
    /\ Len(fx_in.doors) = 2
    /\ fx_in.doors[1].type = "door_arc"
    /\ fx_in.doors[2].type = "door_line" /\ fx_in.doors[2].length = 80
    /\ Len(fx_out[1].value[1]) = 2
    /\ fx_out[1].value[1][2].door_type = "standard"

\* C26 (as stated): every room _extract_rooms returns has an area above 1000,
\* that is, as many rooms are returned as there are regions whose largest
\* contour has an area above 1000.
C26_RoomAreaAboveThousand ==
    (fx_out # <<>> /\ fx_in.method = "_extract_rooms") =>
        LET rooms == fx_out[1].value[1]
            big(contours) ==
                /\ contours # <<>>
                /\ LET area == contourArea(int_points_of(largest_contour_of(contours)))
                   IN  area.num > 1000 * area.den
        IN  /\ \A k \in DOMAIN rooms : rooms[k].area.num > 1000 * rooms[k].area.den
            /\ Len(rooms) = Len(SelectSeq(fx_in.regions, big))

\* C27: every window that _process_windows returns for the windows that
\* _detect_windows emitted has width and height strictly between 20 and 200,
\* an aspect ratio strictly between 0.5 and 4, and a window_type among
\* 'standard', 'horizontal' and 'picture' (never 'vertical').
C27_DetectedWindowsWithinFilter ==
    win_out # <<>> =>
        \A k \in DOMAIN win_out[1] :
            LET window == win_out[1][k]
            IN  /\ 20 < window.width /\ window.width < 200
                /\ 20 < window.height /\ window.height < 200
                /\ 2 * window.width > window.height
                /\ window.width < 4 * window.height
                /\ 2 * window.aspect_ratio.num > window.aspect_ratio.den
                /\ window.aspect_ratio.num < 4 * window.aspect_ratio.den
                /\ window.window_type \in {"standard", "horizontal", "picture"}

\* Two detected windows have been enriched: a 'horizontal' and a 'picture' one.
C27_Witness ==
    /\ win_out # <<>>
    /\ Len(det_in.contours) = 2 /\ Len(win_out[1]) = 2
    /\ \E k \in DOMAIN win_out[1] : win_out[1][k].window_type = "horizontal"
    /\ \E k \in DOMAIN win_out[1] : win_out[1][k].window_type = "picture"

\* The length v (in pixels) of an image with the given scale entry, in unit.
in_output_unit(v, entry, unit) ==
    IF unit = "meters" THEN RMul(v, entry.scale_factor)
    ELSE RDiv(RMul(v, entry.scale_factor), meters_per(unit))

\* C28 (as stated): after apply_scale_to_features on a calibrated image every
\* coordinate and length of every returned feature is in the output unit:
\* points, length, width, height, thickness, radius and area, and also a swing
\* door's center and a room's centroid.
C28_EveryCoordinateInOutputUnit ==
    (asf_out # <<>> /\ asf_in.image_id \in DOMAIN asf_in.scale_factors) =>
        /\ asf_out[1].outcome = "returned"
        /\ \A t \in DOMAIN asf_in.features : \A k \in DOMAIN asf_in.features[t] :
              LET feature == asf_in.features[t][k]
                  scaled  == asf_out[1].value[1][t][k]
                  entry   == asf_in.scale_factors[asf_in.image_id]
                  unit    == asf_in.output_unit
                  len(v)  == in_output_unit(v, entry, unit)
                  pt(p)   == <<len(p[1]), len(p[2])>>
              IN  /\ scaled.unit = unit
                  /\ "points" \in DOMAIN feature =>
                        scaled.points = [i \in DOMAIN feature.points |-> pt(feature.points[i])]
                  /\ \A key \in DOMAIN feature \cap LengthKeys : scaled[key] = len(feature[key])
                  /\ "area" \in DOMAIN feature =>
                        scaled.area = area_from_square_meters(
                            RMul(feature.area, RMul(entry.scale_factor, entry.scale_factor)),
                            unit)
                  /\ "center" \in DOMAIN feature => scaled.center = pt(feature.center)
                  /\ "centroid" \in DOMAIN feature => scaled.centroid = pt(feature.centroid)

\* C29: after apply_scale_to_features, whether it returned or raised, the
\* caller's features dict, every feature in it and every 'points' list have
\* the keys and values they had at the call, and the scale map is unchanged.
C29_InputAndScaleMapUnchanged ==
    asf_out # <<>> =>
        /\ asf_features = asf_in.features
        /\ scale_factors = asf_in.scale_factors

\* A call has returned features that differ from the ones passed in.
C29_Witness ==
    /\ asf_out # <<>> /\ asf_out[1].outcome = "returned"
    /\ "walls" \in DOMAIN asf_in.features /\ "rooms" \in DOMAIN asf_in.features
    /\ asf_out[1].value[1]["walls"][1].points # asf_in.features["walls"][1].points
    /\ asf_features["walls"][1].points = <<PxPoint(0, 0), PxPoint(40, 0)>>

\* C30 (as stated): in every interleaving of process_building_plan and
\* set_scale requests on the shared ImageProcessor, each returned result is
\* self-consistent: its features are the extracted ones scaled with the entry
\* in its scale_info, or the unscaled ones exactly when it has no scale_info;
\* and a result for an image whose scale was never set is unscaled, whatever
\* scales the other images were given.
C30_ResultsSelfConsistent ==
    \A c \in DOMAIN ip_calls :
        ip_calls[c].pc = "returned" =>
            LET call   == ip_calls[c]
                result == call.result[1]
            IN  /\ "scale_info" \in DOMAIN result =>
                      result.features =
                          apply_scale_to_features(
                              Put(<<>>, call.image_id, result.scale_info),
                              call.image_id, call.features, "meters").value[1]
                /\ "scale_info" \notin DOMAIN result => result.features = call.features
                /\ call.image_id \notin DOMAIN calibrated =>
                      /\ "scale_info" \notin DOMAIN result
                      /\ result.features = call.features

====
